---- MODULE Spec2Model ----
(***************************************************************************)
(* SpamGuard: the scoring and classification engine.                       *)
(*                                                                         *)
(* Scores are JavaScript numbers: IEEE 754 doubles.  A finite double is    *)
(* carried as a sign and a magnitude counted in units of 2^-56, held in    *)
(* three limbs of 21 bits, and every sum is rounded to 53 significant bits *)
(* with ties to even, as the hardware rounds it: 2.5 + 0.3 + 0.8 is        *)
(* 3.5999999999999996 here as it is in the engine.  The grid holds every   *)
(* double from 2^-4 up to 128 exactly; no score of the engine is smaller   *)
(* than 0.1 without being 0.  Decimal literals are written in thousandths  *)
(* (2.5 is 2500) and Num converts them as the parser of literals does.     *)
(* NaN stands for a value that is not a finite number.                     *)
(*                                                                         *)
(* A text is a sequence of words of a fixed vocabulary, joined by single   *)
(* spaces; WordInfo gives each word the character counts the analyzers     *)
(* measure.  No word of the vocabulary is a substring of another one.      *)
(***************************************************************************)
EXTENDS Integers, Sequences, FiniteSets, TLC

------------------------------------------------------------------------------
(* Bounds of the model *)

MaxBatch == 2
MaxClock == 2
MaxBody == 2
MaxRequests == 1
MaxTokens == 2
MaxCount == 10
MaxText == 3
MaxLinks == 2
MaxRepeat == 2
\* days between two readings of the clock
TickDays == 300

------------------------------------------------------------------------------
(* JavaScript numbers *)

Pow2(n) == 2 ^ n

\* limbs of 21 bits
Limb == Pow2(21)

\* the position of the highest set bit of n >= 1
FloorLog2(n) == CHOOSE k \in 0..30 : Pow2(k) <= n /\ (k = 30 \/ n < Pow2(k + 1))

\* carries (or borrows) propagated from the low limb up; the top limb keeps
\* what is left
MagNorm(h, m, l) ==
    LET m1 == m + (l \div Limb)
    IN  <<h + (m1 \div Limb), m1 % Limb, l % Limb>>

MagAdd(a, b) == MagNorm(a[1] + b[1], a[2] + b[2], a[3] + b[3])

\* a - b for a >= b
MagSub(a, b) == MagNorm(a[1] - b[1], a[2] - b[2], a[3] - b[3])

MagLess(a, b) ==
    \/ a[1] < b[1]
    \/ a[1] = b[1] /\ a[2] < b[2]
    \/ a[1] = b[1] /\ a[2] = b[2] /\ a[3] < b[3]

\* round a magnitude to 53 significant bits, ties to even; sticky says that
\* the exact value lies strictly above x
RoundSticky(x, sticky) ==
    IF x[1] < 2048
    THEN IF sticky = 2 \/ (sticky = 1 /\ x[3] % 2 = 1)
         THEN MagNorm(x[1], x[2], x[3] + 1) ELSE x
    ELSE LET s    == FloorLog2(x[1]) - 10
             u    == Pow2(s)
             rem  == x[3] % u
             half == u \div 2
             odd  == (x[3] \div u) % 2 = 1
             down == <<x[1], x[2], x[3] - rem>>
         IN  IF rem > half \/ (rem = half /\ (sticky > 0 \/ odd))
             THEN MagNorm(down[1], down[2], down[3] + u)
             ELSE down

RoundMag(x) == RoundSticky(x, 0)

NaN == [neg |-> FALSE, mag |-> <<-1, 0, 0>>]

Zero == [neg |-> FALSE, mag |-> <<0, 0, 0>>]

IsNum(x) == x # NaN

\* the double a decimal literal of milli thousandths denotes: milli * 2^56 /
\* 1000 by short division, rounded to nearest
Num(milli) ==
    LET n  == IF milli < 0 THEN -milli ELSE milli
        H  == n * 16384
        r1 == H % 1000
        r2 == (r1 * Limb) % 1000
        r3 == (r2 * Limb) % 1000
        q  == <<H \div 1000, (r1 * Limb) \div 1000, (r2 * Limb) \div 1000>>
        sticky == IF q[1] < 2048
                  THEN (IF 2 * r3 > 1000 THEN 2 ELSE IF 2 * r3 = 1000 THEN 1 ELSE 0)
                  ELSE (IF r3 > 0 THEN 1 ELSE 0)
    IN  IF n = 0 THEN Zero ELSE [neg |-> milli < 0, mag |-> RoundSticky(q, sticky)]

\* k / n for whole k >= 0 and n >= 1: k * 2^56 / n by short division, rounded
\* to nearest
DivSmall(k, n) ==
    LET H  == k * 16384
        r1 == H % n
        r2 == (r1 * Limb) % n
        r3 == (r2 * Limb) % n
        q  == <<H \div n, (r1 * Limb) \div n, (r2 * Limb) \div n>>
        sticky == IF q[1] < 2048
                  THEN (IF 2 * r3 > n THEN 2 ELSE IF 2 * r3 = n THEN 1 ELSE 0)
                  ELSE (IF r3 > 0 THEN 1 ELSE 0)
    IN  IF k = 0 THEN Zero ELSE [neg |-> FALSE, mag |-> RoundSticky(q, sticky)]

\* a + b on numbers; a string or NaN operand poisons the sum
Add(a, b) ==
    IF a = NaN \/ b = NaN THEN NaN
    ELSE IF a.neg = b.neg THEN [neg |-> a.neg, mag |-> RoundMag(MagAdd(a.mag, b.mag))]
    ELSE IF a.mag = b.mag THEN Zero
    ELSE IF MagLess(a.mag, b.mag)
         THEN [neg |-> b.neg, mag |-> RoundMag(MagSub(b.mag, a.mag))]
         ELSE [neg |-> a.neg, mag |-> RoundMag(MagSub(a.mag, b.mag))]

\* a < b on finite numbers
Less(a, b) ==
    IF a.neg /\ ~b.neg THEN TRUE
    ELSE IF ~a.neg /\ b.neg THEN FALSE
    ELSE IF a.neg THEN MagLess(b.mag, a.mag)
    ELSE MagLess(a.mag, b.mag)

\* a >= b; false as soon as one side is NaN
Ge(a, b) == a # NaN /\ b # NaN /\ ~Less(a, b)

\* a <= b; false as soon as one side is NaN
Le(a, b) == a # NaN /\ b # NaN /\ ~Less(b, a)

\* a > b; false as soon as one side is NaN
Gt(a, b) == a # NaN /\ b # NaN /\ Less(b, a)

\* a < b; false as soon as one side is NaN
Lt(a, b) == a # NaN /\ b # NaN /\ Less(a, b)

\* Math.max(0, x)
\* the score left as it is
Max0Unfloored(x) == x

\* Math.max(0, x)
Max0(x) == IF x = NaN THEN NaN ELSE IF x.neg THEN Zero ELSE x

\* Math.min(a, b)
MathMin(a, b) == IF a = NaN \/ b = NaN THEN NaN ELSE IF Less(b, a) THEN b ELSE a

\* x * k for a small whole k >= 0
MulSmall(x, k) ==
    IF x = NaN THEN NaN
    ELSE IF k = 0 \/ x = Zero THEN Zero
    ELSE [neg |-> x.neg, mag |-> RoundMag(MagNorm(x.mag[1] * k, x.mag[2] * k, x.mag[3] * k))]

\* Math.round(y): the nearest whole number, halves towards plus infinity
MathRound(y) ==
    LET whole == y.mag[1] \div 16384
        frac  == <<y.mag[1] % 16384, y.mag[2], y.mag[3]>>
        half  == <<8192, 0, 0>>
    IN  IF ~y.neg THEN (IF MagLess(frac, half) THEN whole ELSE whole + 1)
        ELSE (IF MagLess(half, frac) THEN -(whole + 1) ELSE -whole)

\* Math.round(x * 100) / 100: the double nearest to the hundredths
Round2(x) == IF x = NaN THEN NaN ELSE Num(MathRound(MulSmall(x, 100)) * 10)

Min(a, b) == IF a <= b THEN a ELSE b

RECURSIVE SeqSum(_)
SeqSum(s) == IF s = <<>> THEN 0 ELSE Head(s) + SeqSum(Tail(s))

SelectIn(s, S) == SelectSeq(s, LAMBDA x : x \in S)

------------------------------------------------------------------------------
(* Vocabulary *)

Undefined == <<"#undefined">>

\* eleven pages of one legitimate domain
PageList ==
    <<"https://google.com/a", "https://google.com/b", "https://google.com/c",
      "https://google.com/d", "https://google.com/e", "https://google.com/f",
      "https://google.com/g", "https://google.com/h", "https://google.com/i",
      "https://google.com/j", "https://google.com/k">>

GooglePages == {PageList[i] : i \in 1..Len(PageList)}

Vocab == {"hello", "report", "winner", "WINNER", "v1agra", "fr33", "unsubscribe",
          "constructor", "$100", "http://192.168.1.1/login", "http://example.xyz/q",
          "https://google.com", "ok", "supercalifragilisticexpialidocious",
          "http://example.org/a", "http://example.org:8080/a.exe", "http://10.0.1.1/login"}
         \cup GooglePages

\* len: characters; letters: [a-zA-Z]; upper: [A-Z]; special: [^a-zA-Z0-9\s];
\* excl: '!' characters
WordInfo ==
    [w \in Vocab |->
        CASE w = "hello"       -> [len |-> 5,  letters |-> 5,  upper |-> 0, special |-> 0, excl |-> 0]
          [] w = "report"      -> [len |-> 6,  letters |-> 6,  upper |-> 0, special |-> 0, excl |-> 0]
          [] w = "winner"      -> [len |-> 6,  letters |-> 6,  upper |-> 0, special |-> 0, excl |-> 0]
          [] w = "WINNER"      -> [len |-> 6,  letters |-> 6,  upper |-> 6, special |-> 0, excl |-> 0]
          [] w = "v1agra"      -> [len |-> 6,  letters |-> 5,  upper |-> 0, special |-> 0, excl |-> 0]
          [] w = "fr33"        -> [len |-> 4,  letters |-> 2,  upper |-> 0, special |-> 0, excl |-> 0]
          [] w = "unsubscribe" -> [len |-> 11, letters |-> 11, upper |-> 0, special |-> 0, excl |-> 0]
          [] w = "constructor" -> [len |-> 11, letters |-> 11, upper |-> 0, special |-> 0, excl |-> 0]
          [] w = "$100"        -> [len |-> 4,  letters |-> 0,  upper |-> 0, special |-> 1, excl |-> 0]
          [] w = "ok"          -> [len |-> 2,  letters |-> 2,  upper |-> 0, special |-> 0, excl |-> 0]
          [] w = "supercalifragilisticexpialidocious" ->
                                  [len |-> 34, letters |-> 34, upper |-> 0, special |-> 0, excl |-> 0]
          [] w = "http://192.168.1.1/login" ->
                                  [len |-> 24, letters |-> 9,  upper |-> 0, special |-> 7, excl |-> 0]
          [] w = "https://google.com" ->
                                  [len |-> 18, letters |-> 14, upper |-> 0, special |-> 4, excl |-> 0]
          [] w = "http://example.org:8080/a.exe" ->
                                  [len |-> 29, letters |-> 18, upper |-> 0, special |-> 7, excl |-> 0]
          [] w = "http://10.0.1.1/login" ->
                                  [len |-> 21, letters |-> 9,  upper |-> 0, special |-> 7, excl |-> 0]
          [] OTHER             -> [len |-> 20, letters |-> 15, upper |-> 0, special |-> 5, excl |-> 0]]

\* length of the words of t joined by single spaces
TextLen(t) ==
    IF t = <<>> THEN 0
    ELSE SeqSum([i \in 1..Len(t) |-> WordInfo[t[i]].len]) + (Len(t) - 1)

CountOf(t, field) ==
    SeqSum([i \in 1..Len(t) |->
        CASE field = "letters" -> WordInfo[t[i]].letters
          [] field = "upper"   -> WordInfo[t[i]].upper
          [] field = "special" -> WordInfo[t[i]].special
          [] OTHER             -> WordInfo[t[i]].excl])

\* toLowerCase on a word, and on a text
Lower(w) == IF w = "WINNER" THEN "winner" ELSE w

LowerText(t) == [i \in 1..Len(t) |-> Lower(t[i])]

\* text.includes(phrase): the phrase's words occur as consecutive words
Includes(t, phrase) ==
    \E i \in 1..(Len(t) - Len(phrase) + 1) :
        \A j \in 1..Len(phrase) : t[i + j - 1] = phrase[j]

\* names every object inherits from Object.prototype
ObjectPrototypeKeys == {"constructor"}

------------------------------------------------------------------------------
(* Language dataset *)

EnglishData ==
    [language |-> "en",
     spamWords |-> << [word |-> <<"winner">>, score |-> 1500, caseSensitive |-> FALSE] >>,
     spamSingleWords |-> [w \in {"v1agra", "fr33"} |-> IF w = "v1agra" THEN 2000 ELSE 1000],
     spamSubjectPatterns |-> << [name |-> "WINNER", word |-> "winner", score |-> 2000] >>,
     hamWords |-> << [word |-> <<"unsubscribe">>, score |-> -500] >>,
     bayesianTokens |-> [w \in {"winner", "v1agra", "report"} |->
                            IF w = "report" THEN [spam |-> 1, ham |-> 3]
                            ELSE [spam |-> 3, ham |-> 1]],
     urgencyWords |-> {"urgent"},
     greetingWords |-> {"hello"},
     genericGreetings |-> {<<"dear", "customer">>}]

\* obj[key] on a plain object: an own key, else a member inherited from
\* Object.prototype (a function, not a number), else undefined
Lookup(obj, key) ==
    IF key \in DOMAIN obj THEN [kind |-> "own", value |-> obj[key]]
    ELSE IF key \in ObjectPrototypeKeys THEN [kind |-> "inherited", value |-> 0]
    ELSE [kind |-> "undefined", value |-> 0]

------------------------------------------------------------------------------
(* Email input and parser *)

NoDate == -1

NullAddr == [domain |-> "#null"]

\* the addresses of the model and the domain parseEmailAddress extracts
AddressBook ==
    [a \in {"ann@corp.com", "bob@gmail.com", "eve@mailinator.com",
            "undisclosed <list@corp.com>", "<bounce@other.net>"} |->
        CASE a = "bob@gmail.com"      -> "gmail.com"
          [] a = "eve@mailinator.com" -> "mailinator.com"
          [] a = "<bounce@other.net>" -> "other.net"
          [] OTHER                    -> "corp.com"]

\* a string field of the input: truthy when present and not empty
Truthy(v) == v # "undefined" /\ v # ""

TruthyText(t) == t # Undefined /\ t # <<>>

parseEmailAddress(value) ==
    IF ~Truthy(value) THEN NullAddr
    ELSE IF value \in DOMAIN AddressBook THEN [domain |-> AddressBook[value]]
    ELSE NullAddr

\* the token after "from" of a Received header
ReceivedFrom ==
    [h \in {"from mail.corp.com by mx.corp.com", "from 10.0.0.1.evil.com by mx.corp.com", "by mx.corp.com"} |->
        CASE h = "from mail.corp.com by mx.corp.com"     -> "mail.corp.com"
          [] h = "from 10.0.0.1.evil.com by mx.corp.com" -> "10.0.0.1.evil.com"
          [] OTHER                                       -> "#null"]

parseReceivedHeaders(values) ==
    [i \in 1..Len(values) |-> [from |-> ReceivedFrom[values[i]], raw |-> values[i]]]

addHeader(headers, key, value) ==
    LET existing == IF key \in DOMAIN headers THEN headers[key] ELSE <<>>
    IN  [k \in (DOMAIN headers) \cup {key} |->
            IF k = key THEN Append(existing, value) ELSE headers[k]]

addHeaderIf(cond, headers, key, value) ==
    IF cond THEN addHeader(headers, key, value) ELSE headers

\* input.x || "" for a text field
\* the field passed on without a default
OrEmptyNoDefault(t) == t

OrEmpty(t) == IF t = Undefined THEN <<>> ELSE t

parseStructuredEmail(input) ==
    LET h0 == input.headers
        h1 == addHeaderIf(Truthy(input.from), h0, "from", input.from)
        h2 == addHeaderIf(Truthy(input.to), h1, "to", input.to)
        h3 == addHeaderIf(TruthyText(input.subject), h2, "subject", "#subject")
        h4 == addHeaderIf(Truthy(input.messageId), h3, "message-id", input.messageId)
        h5 == addHeaderIf(input.date # NoDate, h4, "date", "#date")
        h6 == addHeaderIf(Truthy(input.replyTo), h5, "reply-to", input.replyTo)
        h7a == addHeaderIf(Truthy(input.returnPath), h6, "return-path", input.returnPath)
        h7b == addHeaderIf(Truthy(input.receivedSpf), h7a, "received-spf", input.receivedSpf)
        h7c == addHeaderIf(Truthy(input.dkimSignature), h7b, "dkim-signature", input.dkimSignature)
        h7 == addHeaderIf(Truthy(input.authenticationResults), h7c,
                          "authentication-results", input.authenticationResults)
        toAddr == parseEmailAddress(IF Truthy(input.to) THEN input.to ELSE "")
    IN  [headers |-> h7,
         subject |-> OrEmpty(input.subject),
         from |-> parseEmailAddress(IF Truthy(input.from) THEN input.from ELSE ""),
         to |-> IF toAddr = NullAddr THEN <<>> ELSE <<toAddr>>,
         replyTo |-> parseEmailAddress(IF Truthy(input.replyTo) THEN input.replyTo ELSE ""),
         returnPath |-> IF Truthy(input.returnPath) THEN input.returnPath ELSE "#null",
         messageId |-> IF Truthy(input.messageId) THEN input.messageId ELSE "#null",
         date |-> input.date,
         textBody |-> OrEmpty(input.textBody),
         htmlBody |-> IF input.htmlBody = "undefined" THEN "" ELSE input.htmlBody,
         receivedChain |-> parseReceivedHeaders(
                              IF "received" \in DOMAIN h7 THEN h7["received"] ELSE <<>>)]

\* the caller's input.headers after parseStructuredEmail(input): a value given
\* as an array is the array the map holds, with what addHeader pushed onto
\* it; a value given as a string was wrapped in a new array
headersAfter(input, arrays) ==
    [k \in DOMAIN input.headers |->
        IF k \in arrays THEN parseStructuredEmail(input).headers[k]
        ELSE input.headers[k]]

\* headers.get(key)?.[0] || ""
HeaderGet(headers, key) ==
    IF key \in DOMAIN headers /\ Len(headers[key]) > 0 THEN headers[key][1] ELSE ""

------------------------------------------------------------------------------
(* Analyzer results *)

\* a rule that fired: the match pushed (name, rule score) and the amount the
\* analyzer added to its running total for it
Fire(n, sc) == [name |-> n, score |-> Num(sc), add |-> Num(sc)]

When(cond, m) == IF cond THEN <<m>> ELSE <<>>

RECURSIVE Accumulate(_)
Accumulate(fs) ==
    IF fs = <<>> THEN Zero
    ELSE LET rest == Accumulate(SubSeq(fs, 1, Len(fs) - 1))
         IN  Add(rest, fs[Len(fs)].add)

------------------------------------------------------------------------------
(* Header analyzer *)

HEADER_RULES ==
    [n \in {"SPF_FAIL", "SPF_SOFTFAIL", "SPF_NONE", "DKIM_FAIL", "DKIM_NONE",
            "DMARC_FAIL", "MISSING_FROM", "MISSING_DATE", "MISSING_MESSAGE_ID",
            "INVALID_MESSAGE_ID", "FORGED_RECEIVED", "TOO_MANY_RECEIVED",
            "FROM_REPLY_TO_MISMATCH", "FROM_RETURN_PATH_MISMATCH",
            "SUSPICIOUS_MAILER", "FUTURE_DATE", "VERY_OLD_DATE", "FREEMAIL_FROM",
            "DISPOSABLE_EMAIL", "TO_NO_RECIPIENT", "TO_UNDISCLOSED",
            "HIGH_PRIORITY_SPAM"} |->
        CASE n \in {"SPF_FAIL", "DMARC_FAIL"} -> 2500
          [] n \in {"SPF_SOFTFAIL", "FROM_REPLY_TO_MISMATCH", "FUTURE_DATE",
                    "TO_NO_RECIPIENT"} -> 1500
          [] n \in {"SPF_NONE", "MISSING_DATE", "MISSING_MESSAGE_ID"} -> 100
          [] n \in {"DKIM_FAIL", "MISSING_FROM", "FORGED_RECEIVED",
                    "DISPOSABLE_EMAIL"} -> 2000
          [] n = "DKIM_NONE" -> 0
          [] n = "FREEMAIL_FROM" -> 300
          [] n = "TO_UNDISCLOSED" -> 800
          [] n = "HIGH_PRIORITY_SPAM" -> 500
          [] OTHER -> 1000]

HeaderRule(n) == Fire(n, HEADER_RULES[n])

FREEMAIL_DOMAINS == {"gmail.com"}

DISPOSABLE_DOMAINS == {"mailinator.com"}

\* header values of the model and what the analyzer's substring tests see
SpfIncludesFail(v) ==
    v \in {"fail", "softfail", "SoftFail", "fail (domain example.com)"}

\* includes("softfail") that never holds
SpfNeverSoftfail(v) == FALSE

SpfIncludesSoftfail(v) == v \in {"softfail", "SoftFail"}

SpfIncludesNone(v) == v = "none"

\* includes("dkim=fail") that never holds
AuthNeverDkimFail(v) == FALSE

AuthIncludesDkimFail(v) == v \in {"dkim=fail", "dkim=fail; dmarc=fail"}

AuthIncludesDmarcFail(v) == v \in {"dmarc=fail", "dkim=fail; dmarc=fail"}

ValidMessageId(v) == v = "<id@corp.com>"

HasInternalIp(f) == f = "10.0.0.1.evil.com"

HasPublicDomain(f) == f \in {"10.0.0.1.evil.com", "mail.corp.com"}

IsSuspiciousMailer(v) == v = "PHPMailer 5.2"

\* priority.toLowerCase() === "high"
IsHigh(v) == v \in {"high", "High", "HIGH"}

\* days
OneDay == 1

OneYear == 365

MaxReceived == 15

analyzeHeaders(email, now) ==
    LET authResults == HeaderGet(email.headers, "authentication-results")
        receivedSpf == HeaderGet(email.headers, "received-spf")
        dkimSignature == HeaderGet(email.headers, "dkim-signature")
        spf ==
            IF SpfIncludesFail(receivedSpf) /\ ~SpfIncludesSoftfail(receivedSpf)
            THEN <<HeaderRule("SPF_FAIL")>>
            ELSE IF SpfIncludesSoftfail(receivedSpf) THEN <<HeaderRule("SPF_SOFTFAIL")>>
            ELSE IF SpfIncludesNone(receivedSpf) \/ receivedSpf = ""
            THEN <<HeaderRule("SPF_NONE")>>
            ELSE <<>>
        dkim ==
            IF AuthIncludesDkimFail(authResults) THEN <<HeaderRule("DKIM_FAIL")>>
            ELSE IF dkimSignature = "" THEN <<HeaderRule("DKIM_NONE")>>
            ELSE <<>>
        dmarc == When(AuthIncludesDmarcFail(authResults), HeaderRule("DMARC_FAIL"))
        missingFrom == When(email.from = NullAddr, HeaderRule("MISSING_FROM"))
        date ==
            IF email.date = NoDate THEN <<HeaderRule("MISSING_DATE")>>
            ELSE When(email.date > now + OneDay, HeaderRule("FUTURE_DATE"))
                 \o When(email.date < now - OneYear, HeaderRule("VERY_OLD_DATE"))
        messageId ==
            IF email.messageId = "#null" THEN <<HeaderRule("MISSING_MESSAGE_ID")>>
            ELSE When(~ValidMessageId(email.messageId), HeaderRule("INVALID_MESSAGE_ID"))
        tooMany == When(Len(email.receivedChain) > MaxReceived, HeaderRule("TOO_MANY_RECEIVED"))
        forged ==
            When(\E i \in 1..Len(email.receivedChain) :
                    /\ email.receivedChain[i].from # "#null"
                    /\ HasInternalIp(email.receivedChain[i].from)
                    /\ HasPublicDomain(email.receivedChain[i].from),
                 HeaderRule("FORGED_RECEIVED"))
        replyTo ==
            When(email.from # NullAddr /\ email.replyTo # NullAddr
                    /\ email.from.domain # email.replyTo.domain,
                 HeaderRule("FROM_REPLY_TO_MISMATCH"))
        returnPathDomain ==
            IF email.returnPath \in DOMAIN AddressBook
            THEN AddressBook[email.returnPath] ELSE ""
        returnPath ==
            When(email.from # NullAddr /\ email.returnPath # "#null"
                    /\ returnPathDomain # "" /\ email.from.domain # returnPathDomain,
                 HeaderRule("FROM_RETURN_PATH_MISMATCH"))
        mailer == When(IsSuspiciousMailer(HeaderGet(email.headers, "x-mailer")),
                       HeaderRule("SUSPICIOUS_MAILER"))
        freemail ==
            IF email.from = NullAddr THEN <<>>
            ELSE IF email.from.domain \in DISPOSABLE_DOMAINS
            THEN <<HeaderRule("DISPOSABLE_EMAIL")>>
            ELSE When(email.from.domain \in FREEMAIL_DOMAINS, HeaderRule("FREEMAIL_FROM"))
        toRule ==
            IF Len(email.to) = 0 THEN <<HeaderRule("TO_NO_RECIPIENT")>>
            ELSE When(HeaderGet(email.headers, "to") = "undisclosed <list@corp.com>",
                      HeaderRule("TO_UNDISCLOSED"))
        xp == HeaderGet(email.headers, "x-priority")
        priority == IF xp # "" THEN xp ELSE HeaderGet(email.headers, "importance")
        prio == When(priority = "1" \/ IsHigh(priority),
                     HeaderRule("HIGH_PRIORITY_SPAM"))
        fired == spf \o dkim \o dmarc \o missingFrom \o date \o messageId \o tooMany
                 \o forged \o replyTo \o returnPath \o mailer \o freemail \o toRule \o prio
    IN  [analyzer |-> "header", score |-> Accumulate(fired), matches |-> fired]

------------------------------------------------------------------------------
(* Text utilities *)

\* an HTML body without any of the features the analyzers look for
HtmlBase ==
    [text |-> <<>>, urls |-> <<>>, hidden |-> 0, tinyFont |-> FALSE, ink |-> 0,
     imgTags |-> 0, remoteImages |-> 0, trackingPixel |-> 0, base64 |-> FALSE,
     form |-> FALSE, js |-> 0, iframe |-> FALSE, objectEmbed |-> FALSE,
     comments |-> 0, commentLength |-> 0, tables |-> 0,
     openTags |-> 1, closeTags |-> 1, mismatchedLinks |-> 0]

\* the HTML bodies of the model: the visible text extractTextFromHtml leaves,
\* the URLs extractUrls finds in the markup, the number of patterns of each
\* group that match and the tag counts
HtmlDocs ==
    [h \in {"<p>hello report</p>",
            "<div style=display:none;font-size:0 onclick=x()>winner</div><script></script>",
            "<img src='http://t.example.xyz/p.gif' width=1 height=1>",
            "<a href='https://accounts.google.com'>https://google.com</a>",
            "<a href='https://accounts.google.com'>https://google.com</a><a href='https://accounts.google.com'>https://google.com</a>",
            "<a href='http://t.example.xyz/p.gif'>hello</a>",
            "<a href='http://t.example.xyz/p.gif'>hello</a><a href='http://t.example.xyz/p.gif'>hello</a>"} |->
        CASE h = "<p>hello report</p>" ->
                [HtmlBase EXCEPT !.text = <<"hello", "report">>]
          [] h = "<img src='http://t.example.xyz/p.gif' width=1 height=1>" ->
                [HtmlBase EXCEPT !.urls = <<"http://t.example.xyz/p.gif">>,
                                 !.imgTags = 1, !.remoteImages = 1,
                                 !.trackingPixel = 1, !.closeTags = 0]
          [] h = "<a href='https://accounts.google.com'>https://google.com</a>" ->
                [HtmlBase EXCEPT !.text = <<"https://google.com">>,
                                 !.urls = <<"https://accounts.google.com", "https://google.com">>,
                                 !.mismatchedLinks = 1]
          [] h = "<a href='https://accounts.google.com'>https://google.com</a><a href='https://accounts.google.com'>https://google.com</a>" ->
                [HtmlBase EXCEPT !.text = <<"https://google.com", "https://google.com">>,
                                 !.urls = <<"https://accounts.google.com", "https://google.com",
                                            "https://accounts.google.com", "https://google.com">>,
                                 !.mismatchedLinks = 2, !.openTags = 2, !.closeTags = 2]
          [] h = "<a href='http://t.example.xyz/p.gif'>hello</a>" ->
                [HtmlBase EXCEPT !.text = <<"hello">>,
                                 !.urls = <<"http://t.example.xyz/p.gif">>]
          [] h = "<a href='http://t.example.xyz/p.gif'>hello</a><a href='http://t.example.xyz/p.gif'>hello</a>" ->
                [HtmlBase EXCEPT !.text = <<"hello", "hello">>,
                                 !.urls = <<"http://t.example.xyz/p.gif", "http://t.example.xyz/p.gif">>,
                                 !.openTags = 2, !.closeTags = 2]
          [] OTHER ->
                [HtmlBase EXCEPT !.text = <<"winner">>, !.hidden = 2, !.js = 2,
                                 !.openTags = 2, !.closeTags = 2]]

extractTextFromHtml(html) == IF html = "" THEN <<>> ELSE HtmlDocs[html].text

\* x per thousand of y, as the ratio tests compare it: x / y > r/1000
RatioGt(x, y, r) == y > 0 /\ x * 1000 > r * y

calculateTextStats(text) ==
    [charCount |-> TextLen(text),
     wordCount |-> Len(text),
     upperCount |-> CountOf(text, "upper"),
     letterCount |-> CountOf(text, "letters"),
     specialCount |-> CountOf(text, "special")]

\* the words of a and b joined by one space
Join(a, b) == a \o b

\* indices of the first occurrence of each distinct word of t
FirstOccurrences(t) ==
    SelectSeq([i \in 1..Len(t) |-> i],
              LAMBDA i : \A j \in 1..(i - 1) : t[j] # t[i])

------------------------------------------------------------------------------
(* Content analyzer *)

CONTENT_RULES ==
    [n \in {"HIGH_CAPS_RATIO", "HIGH_SPECIAL_CHAR_RATIO", "EMPTY_BODY",
            "BODY_HTML_ONLY", "SUBJECT_EMPTY", "SUBJECT_ALL_CAPS",
            "MULTIPLE_EXCLAMATIONS", "EXCESSIVE_MONEY_REFS"} |->
        IF n \in {"EMPTY_BODY", "SUBJECT_EMPTY", "SUBJECT_ALL_CAPS"} THEN 1000 ELSE 500]

ContentRule(n) == Fire(n, CONTENT_RULES[n])

MinBodyLength == 10

MoneyWords == {"$100"}

\* the single-word check of one token against langData.spamSingleWords
SingleWordFire(dict, word) ==
    LET score == Lookup(dict, word)
    IN  IF score.kind = "undefined" THEN <<>>
        ELSE IF score.kind = "own" THEN <<Fire("SPAM_WORD_MATCH", score.value)>>
        ELSE <<[name |-> "SPAM_WORD_MATCH", score |-> NaN, add |-> NaN]>>

RECURSIVE Flatten(_)
Flatten(ss) == IF ss = <<>> THEN <<>> ELSE Head(ss) \o Flatten(Tail(ss))

FlatMap(s, F(_)) == Flatten([i \in 1..Len(s) |-> F(s[i])])

\* the source of the body: the longer of the text body and the HTML text
BodySource(email) ==
    LET htmlText == extractTextFromHtml(email.htmlBody)
    IN  IF TextLen(email.textBody) > TextLen(htmlText) THEN email.textBody ELSE htmlText

analyzeContent(email, langData) ==
    LET textBody == email.textBody
        htmlBody == email.htmlBody
        bodyText == BodySource(email)
        allText == Join(email.subject, bodyText)
        normalizedAll == LowerText(allText)
        emptyBody == When(TextLen(bodyText) < MinBodyLength, ContentRule("EMPTY_BODY"))
        htmlOnly == When(htmlBody # "" /\ textBody = <<>>, ContentRule("BODY_HTML_ONLY"))
        subjectEmpty == When(email.subject = <<>>, ContentRule("SUBJECT_EMPTY"))
        letters == CountOf(email.subject, "letters")
        allCaps ==
            When(TextLen(email.subject) > 5 /\ letters > 5
                    /\ RatioGt(CountOf(email.subject, "upper"), letters, 800),
                 ContentRule("SUBJECT_ALL_CAPS"))
        subjectPatterns ==
            FlatMap(langData.spamSubjectPatterns,
                    LAMBDA p : When(\E i \in 1..Len(email.subject) :
                                        Lower(email.subject[i]) = p.word,
                                    Fire("SUBJECT_PATTERN", p.score)))
        phrases ==
            FlatMap(langData.spamWords,
                    LAMBDA sw : When(IF sw.caseSensitive
                                     THEN Includes(allText, sw.word)
                                     ELSE Includes(normalizedAll, LowerText(sw.word)),
                                     Fire("SPAM_PHRASE", sw.score)))
        firsts == FirstOccurrences(normalizedAll)
        singleWords ==
            FlatMap(firsts,
                    LAMBDA i : SingleWordFire(langData.spamSingleWords, normalizedAll[i]))
        hamWords ==
            FlatMap(langData.hamWords,
                    LAMBDA hw : When(Includes(normalizedAll, hw.word),
                                     Fire("HAM_PHRASE_MATCH", hw.score)))
        stats == calculateTextStats(bodyText)
        highCaps ==
            When(RatioGt(stats.upperCount, stats.letterCount, 300) /\ stats.wordCount > 20,
                 ContentRule("HIGH_CAPS_RATIO"))
        highSpecial ==
            When(RatioGt(stats.specialCount, stats.charCount, 150),
                 ContentRule("HIGH_SPECIAL_CHAR_RATIO"))
        exclamations ==
            When(CountOf(allText, "excl") > 5, ContentRule("MULTIPLE_EXCLAMATIONS"))
        money ==
            When(Len(SelectIn(allText, MoneyWords)) > 3, ContentRule("EXCESSIVE_MONEY_REFS"))
        fired == emptyBody \o htmlOnly \o subjectEmpty \o allCaps \o subjectPatterns
                 \o phrases \o singleWords \o hamWords \o highCaps \o highSpecial
                 \o exclamations \o money
    IN  [analyzer |-> "content", score |-> Max0(Accumulate(fired)), matches |-> fired]

------------------------------------------------------------------------------
(* HTML analyzer *)

HTML_RULES ==
    [n \in {"HIDDEN_TEXT", "TINY_FONT", "INVISIBLE_INK", "EXCESSIVE_IMAGES",
            "IMAGE_ONLY", "REMOTE_IMAGES", "SUSPICIOUS_FORM", "JAVASCRIPT_PRESENT",
            "IFRAME_PRESENT", "OBJECT_EMBED", "STYLE_MANIPULATION",
            "TRACKING_PIXEL", "BASE64_IMAGE", "MALFORMED_HTML",
            "COMMENT_STUFFING", "TABLE_SPAM_LAYOUT"} |->
        CASE n \in {"HIDDEN_TEXT", "INVISIBLE_INK", "IFRAME_PRESENT"} -> 2500
          [] n \in {"TINY_FONT", "IMAGE_ONLY", "JAVASCRIPT_PRESENT", "OBJECT_EMBED"} -> 2000
          [] n \in {"EXCESSIVE_IMAGES", "TRACKING_PIXEL"} -> 800
          [] n \in {"SUSPICIOUS_FORM", "STYLE_MANIPULATION"} -> 1500
          [] n \in {"REMOTE_IMAGES", "MALFORMED_HTML", "TABLE_SPAM_LAYOUT"} -> 500
          [] n = "BASE64_IMAGE" -> 300
          [] OTHER -> 1000]

HtmlRule(n) == Fire(n, HTML_RULES[n])

\* the numbers of patterns in hiddenPatterns, colorPatterns,
\* trackingPixelPatterns and jsPatterns
HiddenPatterns == 5

ColorPatterns == 3

PixelPatterns == 2

JsPatterns == 3

\* a match pushed for every pattern of the group that matches
EveryHit(hits, n) == [i \in 1..hits |-> HtmlRule(n)]

\* for (pattern of patterns) if (pattern.test(html)) push unless the rule is
\* already among the matches: hits patterns of the group match
OncePerGroup(hits, n) == When(hits > 0, HtmlRule(n))

Abs(x) == IF x < 0 THEN -x ELSE x

\* analyzeHtml on an HTML body that is not empty, from what its patterns
\* find in the body
checkHtml(d) ==
    LET fired ==
            OncePerGroup(d.hidden, "HIDDEN_TEXT")
            \o When(d.tinyFont, HtmlRule("TINY_FONT"))
            \o OncePerGroup(d.ink, "INVISIBLE_INK")
            \o When(d.imgTags > 10, HtmlRule("EXCESSIVE_IMAGES"))
            \o When(d.imgTags > 0 /\ TextLen(d.text) < 50, HtmlRule("IMAGE_ONLY"))
            \o When(d.remoteImages > 0, HtmlRule("REMOTE_IMAGES"))
            \o OncePerGroup(d.trackingPixel, "TRACKING_PIXEL")
            \o When(d.base64, HtmlRule("BASE64_IMAGE"))
            \o When(d.form, HtmlRule("SUSPICIOUS_FORM"))
            \o OncePerGroup(d.js, "JAVASCRIPT_PRESENT")
            \o When(d.iframe, HtmlRule("IFRAME_PRESENT"))
            \o When(d.objectEmbed, HtmlRule("OBJECT_EMBED"))
            \o When(d.comments > 10 \/ d.commentLength > 1000, HtmlRule("COMMENT_STUFFING"))
            \o When(d.tables > 5, HtmlRule("TABLE_SPAM_LAYOUT"))
            \o When(d.openTags > 0
                      /\ Abs(d.openTags - d.closeTags) * 10 > 3 * d.openTags,
                    HtmlRule("MALFORMED_HTML"))
    IN  [analyzer |-> "html", score |-> Accumulate(fired), matches |-> fired]

analyzeHtml(email) ==
    IF email.htmlBody = "" THEN [analyzer |-> "html", score |-> Zero, matches |-> <<>>]
    ELSE checkHtml(HtmlDocs[email.htmlBody])

------------------------------------------------------------------------------
(* URL analyzer *)

URL_RULES ==
    [n \in {"IP_ADDRESS_URL", "SUSPICIOUS_TLD", "URL_SHORTENER", "PHISHING_DOMAIN",
            "SUSPICIOUS_PATH", "MANY_URLS", "URL_WITH_PORT", "ENCODED_URL",
            "MISMATCHED_LINK_TEXT", "EXECUTABLE_LINK", "LONG_SUBDOMAIN",
            "MANY_SUBDOMAINS"} |->
        CASE n \in {"IP_ADDRESS_URL", "PHISHING_DOMAIN", "EXECUTABLE_LINK"} -> 2500
          [] n \in {"SUSPICIOUS_TLD", "SUSPICIOUS_PATH", "URL_WITH_PORT"} -> 1500
          [] n = "ENCODED_URL" -> 1200
          [] n = "MISMATCHED_LINK_TEXT" -> 2000
          [] OTHER -> 1000]

UrlRule(n) == Fire(n, URL_RULES[n])

SUSPICIOUS_TLDS == {"xyz", "top", "click"}
URL_SHORTENERS == {<<"bit", "ly">>}
LEGITIMATE_DOMAINS == {<<"google", "com">>, <<"gmail", "com">>, <<"github", "com">>}
CompoundTlds == {<<"co", "uk">>, <<"com", "au">>, <<"co", "nz">>, <<"co", "jp">>,
                 <<"com", "br">>, <<"co", "in">>}

\* the words of the vocabulary that extractUrls takes for URLs
UrlWords ==
    {"http://192.168.1.1/login", "http://example.xyz/q", "https://google.com",
     "http://example.org/a", "http://example.org:8080/a.exe", "http://10.0.1.1/login"}
    \cup GooglePages

\* the URLs of the model as new URL() splits them; the host is its list of
\* labels; domainPattern and pathPattern are the score of the first entry of
\* SPAM_DOMAIN_PATTERNS and SUSPICIOUS_PATH_PATTERNS that matches, 0 for none
UrlTable ==
    [u \in UrlWords \cup {"http://t.example.xyz/p.gif", "https://accounts.google.com"} |->
        LET url == [original |-> u, domain |-> <<"google", "com">>, isIpAddress |-> FALSE,
                    port |-> "", encodedCount |-> 0, domainPattern |-> 0, pathPattern |-> 0,
                    longestLabel |-> 0]
        IN  CASE u = "http://192.168.1.1/login" ->
                    [url EXCEPT !.domain = <<"192", "168", "1", "1">>, !.isIpAddress = TRUE,
                                !.longestLabel = 3]
              [] u = "http://10.0.1.1/login" ->
                    [url EXCEPT !.domain = <<"10", "0", "1", "1">>, !.isIpAddress = TRUE,
                                !.longestLabel = 2]
              [] u = "http://example.org/a" ->
                    [url EXCEPT !.domain = <<"example", "org">>]
              [] u = "http://example.org:8080/a.exe" ->
                    [url EXCEPT !.domain = <<"example", "org">>, !.port = "8080",
                                !.pathPattern = 2500]
              [] u = "http://t.example.xyz/p.gif" ->
                    [url EXCEPT !.domain = <<"t", "example", "xyz">>, !.longestLabel = 1]
              [] u = "http://example.xyz/q" ->
                    [url EXCEPT !.domain = <<"example", "xyz">>]
              [] u = "https://accounts.google.com" ->
                    [url EXCEPT !.domain = <<"accounts", "google", "com">>,
                                !.longestLabel = 8]
              [] OTHER -> url]

LastN(s, n) == SubSeq(s, Len(s) - n + 1, Len(s))

getRootDomain(domain) ==
    IF Len(domain) <= 2 THEN domain
    ELSE IF LastN(domain, 2) \in CompoundTlds THEN LastN(domain, 3)
    ELSE LastN(domain, 2)

getTld(domain) == domain[Len(domain)]

parseUrl(url) ==
    LET u == UrlTable[url]
    IN  [original |-> u.original, domain |-> u.domain, tld |-> getTld(u.domain),
         isIpAddress |-> u.isIpAddress,
         isSuspiciousTld |-> getTld(u.domain) \in SUSPICIOUS_TLDS,
         hasPortNumber |-> u.port \notin {"", "80", "443"},
         isShortener |-> u.domain \in URL_SHORTENERS
                           \/ getRootDomain(u.domain) \in URL_SHORTENERS,
         encodedChars |-> u.encodedCount > 0, encodedCount |-> u.encodedCount,
         domainPattern |-> u.domainPattern, pathPattern |-> u.pathPattern,
         longestLabel |-> u.longestLabel]

\* text.match(urlPattern): the URL words of a text, in order
extractUrls(t) == SelectSeq(t, LAMBDA w : w \in UrlWords)

extractHtmlUrls(html) == IF html = "" THEN <<>> ELSE HtmlDocs[html].urls

\* [...new Set(s)]: the first occurrence of each element, in order
Dedupe(s) ==
    LET keep == {i \in 1..Len(s) : \A j \in 1..(i - 1) : s[j] # s[i]}
        F[i \in 0..Len(s)] ==
            IF i = 0 THEN <<>>
            ELSE IF i \in keep THEN Append(F[i - 1], s[i]) ELSE F[i - 1]
    IN  F[Len(s)]

MaxUrls == 50
ManyUrls == 10

\* checkedDomains.has(rootDomain) without the skip
NeverChecked(roots, i) == FALSE

\* checkedDomains.has(rootDomain) at the i-th URL
Checked(roots, i) == \E j \in 1..(i - 1) : roots[j] = roots[i]

\* the body of the loop over parsedUrls, for a URL that is neither skipped as
\* a root domain already checked nor as a legitimate domain
UrlChecks(u) ==
    When(u.isIpAddress, UrlRule("IP_ADDRESS_URL"))
    \o When(u.isSuspiciousTld, UrlRule("SUSPICIOUS_TLD"))
    \o When(u.isShortener, UrlRule("URL_SHORTENER"))
    \o When(u.hasPortNumber, UrlRule("URL_WITH_PORT"))
    \o When(u.encodedChars /\ u.encodedCount > 3, UrlRule("ENCODED_URL"))
    \o When(u.domainPattern # 0, Fire("PHISHING_DOMAIN", u.domainPattern))
    \o When(u.pathPattern # 0, Fire("SUSPICIOUS_PATH", u.pathPattern))
    \o When(Len(u.domain) > 4, UrlRule("MANY_SUBDOMAINS"))
    \o When(Len(u.domain) > 2 /\ u.longestLabel > 20, UrlRule("LONG_SUBDOMAIN"))

analyzeUrls(email) ==
    LET htmlText == extractTextFromHtml(email.htmlBody)
        allUrls == Dedupe(extractUrls(email.textBody) \o extractHtmlUrls(email.htmlBody)
                          \o extractUrls(htmlText))
        extractedUrls == SubSeq(allUrls, 1, Min(Len(allUrls), MaxUrls))
        parsedUrls == [i \in 1..Len(extractedUrls) |-> parseUrl(extractedUrls[i])]
        roots == [i \in 1..Len(parsedUrls) |-> getRootDomain(parsedUrls[i].domain)]
        PerUrl(i) ==
            IF Checked(roots, i) THEN <<>>
            ELSE IF roots[i] \in LEGITIMATE_DOMAINS THEN <<>>
            ELSE UrlChecks(parsedUrls[i])
        mismatched == IF email.htmlBody = "" THEN 0
                      ELSE HtmlDocs[email.htmlBody].mismatchedLinks
        fired ==
            When(Len(parsedUrls) > ManyUrls, UrlRule("MANY_URLS"))
            \o Flatten([i \in 1..Len(parsedUrls) |-> PerUrl(i)])
            \o Flatten([i \in 1..mismatched |-> <<UrlRule("MISMATCHED_LINK_TEXT")>>])
    IN  [analyzer |-> "url", score |-> Accumulate(fired), matches |-> fired]

------------------------------------------------------------------------------
(* Pattern analyzer *)

\* ALL_PATTERNS, in order, and the score of each
ALL_PATTERNS ==
    <<"SPACED_WORDS", "LETTER_NUMBER_SUBSTITUTION", "SYMBOL_SUBSTITUTION",
      "ZERO_WIDTH_CHARS", "HOMOGRAPH_ATTACK", "EXCESSIVE_PUNCTUATION", "REPEATED_CHARS",
      "ALL_CAPS_BLOCK", "EXCESSIVE_WHITESPACE", "RANDOM_CAPS",
      "CURRENCY_AMOUNT", "LARGE_MONEY_AMOUNT", "PERCENTAGE_CLAIM", "PHONE_NUMBER_SPAM",
      "TRACKING_NUMBER_FAKE", "LOTTERY_REFERENCE", "NIGERIAN_SCAM_MARKERS",
      "URGENCY_CAPS", "CRYPTO_SCAM", "DATING_SCAM",
      "VERY_SHORT_BODY", "NO_GREETING", "GENERIC_GREETING", "MULTIPLE_URLS",
      "URL_ONLY_BODY", "HIDDEN_TEXT_MARKER",
      "BASE64_BLOCK", "ENCODED_URL", "HTML_ENTITIES_ABUSE">>

PatternScore(n) ==
    CASE n \in {"SPACED_WORDS", "HOMOGRAPH_ATTACK", "ALL_CAPS_BLOCK", "LARGE_MONEY_AMOUNT",
                "LOTTERY_REFERENCE", "HTML_ENTITIES_ABUSE"} -> 1500
      [] n \in {"LETTER_NUMBER_SUBSTITUTION", "EXCESSIVE_WHITESPACE", "PHONE_NUMBER_SPAM"} -> 800
      [] n \in {"SYMBOL_SUBSTITUTION", "EXCESSIVE_PUNCTUATION", "REPEATED_CHARS",
                "RANDOM_CAPS", "PERCENTAGE_CLAIM", "MULTIPLE_URLS"} -> 1000
      [] n \in {"ZERO_WIDTH_CHARS", "HIDDEN_TEXT_MARKER"} -> 2500
      [] n \in {"CURRENCY_AMOUNT", "VERY_SHORT_BODY", "BASE64_BLOCK"} -> 500
      [] n \in {"TRACKING_NUMBER_FAKE", "URGENCY_CAPS", "GENERIC_GREETING", "ENCODED_URL"} -> 1200
      [] n \in {"NIGERIAN_SCAM_MARKERS", "URL_ONLY_BODY"} -> 2000
      [] n = "CRYPTO_SCAM" -> 1800
      [] n = "DATING_SCAM" -> 3000
      [] OTHER -> 100

\* the patterns declared with the g flag: exec on them starts at lastIndex and
\* leaves lastIndex behind
GlobalPatterns == {"CURRENCY_AMOUNT", "LARGE_MONEY_AMOUNT"}

\* the words a global pattern matches, each as a whole
GlobalTriggers(n) == IF n = "CURRENCY_AMOUNT" THEN MoneyWords ELSE {}

\* the patterns that match inside one word of the vocabulary
WordPatterns(w) == IF w = "v1agra" THEN {"LETTER_NUMBER_SUBSTITUTION"} ELSE {}

\* a string as its words and the single spaces between them
Pieces(t) ==
    [i \in 1..(IF t = <<>> THEN 0 ELSE 2 * Len(t) - 1) |->
        IF i % 2 = 1 THEN t[(i + 1) \div 2] ELSE " "]

PieceLen(p) == IF p = " " THEN 1 ELSE WordInfo[p].len

\* the offset of piece i in the string
Offset(ps, i) == SeqSum([k \in 1..(i - 1) |-> PieceLen(ps[k])])

\* `${subject} ${textBody} ${htmlText}`
AllText(email) ==
    Pieces(email.subject) \o <<" ">> \o Pieces(email.textBody) \o <<" ">>
        \o Pieces(extractTextFromHtml(email.htmlBody))

WordsOf(ps) == SelectSeq(ps, LAMBDA p : p # " ")

\* pattern.exec(text) on a pattern with the g flag whose lastIndex is li: the
\* first match at or after li, and the lastIndex the call leaves
ExecGlobal(ps, triggers, li) ==
    LET total == Offset(ps, Len(ps) + 1)
        hits  == {i \in 1..Len(ps) : ps[i] \in triggers /\ Offset(ps, i) >= li}
    IN  IF li > total \/ hits = {} THEN [matched |-> FALSE, lastIndex |-> 0]
        ELSE LET i == CHOOSE i \in hits : \A j \in hits : i <= j
             IN  [matched |-> TRUE, lastIndex |-> Offset(ps, i) + PieceLen(ps[i])]

MinCapsBlock == 30
ShortBody == 20
TitleLine == 50
MinUrls == 5

\* /[A-Z\s]{30,}/
HasCapsBlock(ps) ==
    \E i \in 1..Len(ps) : \E j \in i..Len(ps) :
        /\ \A k \in i..j : ps[k] = " " \/ WordInfo[ps[k]].upper = WordInfo[ps[k]].len
        /\ Offset(ps, j + 1) - Offset(ps, i) >= MinCapsBlock

\* the words of the vocabulary that begin with one of the greetings of the
\* NO_GREETING pattern
GreetingStart == {"hello"}

\* the checks before NO_GREETING is tried: replies, mentions, notifications,
\* the greeting words of the language, a short first line without a comma
SkipNoGreeting(email, bodyText, langData) ==
    \/ email.subject # <<>> /\ email.subject[1] \in {"Re:", "Fwd:", "[list]"}
    \/ Len(bodyText) >= 2 /\ Lower(bodyText[1]) \in {"hi", "hello"}
    \/ bodyText # <<>> /\ Lower(bodyText[1]) \in langData.greetingWords
    \/ TextLen(bodyText) > 0 /\ TextLen(bodyText) < TitleLine

\* pattern.exec(textToCheck) for the patterns without the g flag
PatternMatches(n, ps, bodyText) ==
    CASE n = "ALL_CAPS_BLOCK"  -> HasCapsBlock(ps)
      [] n = "VERY_SHORT_BODY" -> Offset(ps, Len(ps) + 1) <= ShortBody
      [] n = "NO_GREETING"     -> bodyText = <<>> \/ Lower(bodyText[1]) \notin GreetingStart
      [] n = "GENERIC_GREETING" ->
            Len(bodyText) >= 2 /\ Lower(bodyText[1]) = "dear"
                /\ Lower(bodyText[2]) \in {"sir", "madam", "customer", "user", "member", "friend"}
      [] n = "MULTIPLE_URLS"   -> Len(SelectIn(ps, UrlWords)) >= MinUrls
      [] n = "URL_ONLY_BODY"   -> WordsOf(ps) # <<>> /\ \A i \in 1..Len(ps) : ps[i] \in UrlWords \cup {" "}
      [] OTHER                 -> \E i \in 1..Len(ps) : ps[i] # " " /\ n \in WordPatterns(ps[i])

\* the loop over ALL_PATTERNS from pattern k on: the matches pushed and the
\* lastIndex each global pattern is left with
RECURSIVE PatternLoop(_, _, _, _, _)
PatternLoop(k, email, bodyText, langData, li) ==
    IF k > Len(ALL_PATTERNS) THEN [fired |-> <<>>, lastIndex |-> li]
    ELSE
    LET n  == ALL_PATTERNS[k]
        ps == AllText(email)
    IN  IF n = "NO_GREETING" /\ SkipNoGreeting(email, bodyText, langData)
        THEN PatternLoop(k + 1, email, bodyText, langData, li)
        ELSE IF n \in GlobalPatterns
        THEN LET r    == ExecGlobal(ps, GlobalTriggers(n), li[n])
                 rest == PatternLoop(k + 1, email, bodyText, langData,
                                     [li EXCEPT ![n] = r.lastIndex])
             IN  [fired |-> When(r.matched, Fire(n, PatternScore(n))) \o rest.fired,
                  lastIndex |-> rest.lastIndex]
        ELSE LET rest == PatternLoop(k + 1, email, bodyText, langData, li)
             IN  [fired |-> When(PatternMatches(n, ps, bodyText), Fire(n, PatternScore(n)))
                                \o rest.fired,
                  lastIndex |-> rest.lastIndex]

UrgencyThreshold == 3
SaladWords == 20

\* the words of the vocabulary with an invisible character, with letters of
\* two scripts, with an entropy above 4.5 bits: none.  The texts hold no line
\* break and fewer than six sentences, so that the repeated-sentence and the
\* footer checks, which need them, push nothing.
InvisibleWords == {}
MixedScriptWords == {}
HighEntropyWords == {}

\* analyzePatterns(email, options) with the lastIndex of the global patterns
\* as it finds them: the result and the lastIndex it leaves
analyzePatterns(email, langData, li) ==
    LET htmlText == extractTextFromHtml(email.htmlBody)
        ps       == AllText(email)
        bodyText == IF email.textBody # <<>> THEN email.textBody ELSE htmlText
        loop     == PatternLoop(1, email, bodyText, langData, li)
        generic  ==
            When(Len(bodyText) >= 2
                    /\ <<Lower(bodyText[1]), Lower(bodyText[2])>> \in langData.genericGreetings,
                 Fire("GENERIC_GREETING_LANG", 1200))
        urgency  ==
            When(Len(SelectSeq(ps, LAMBDA p : p # " " /\ Lower(p) \in langData.urgencyWords))
                    >= UrgencyThreshold,
                 Fire("MULTIPLE_URGENCY", 1000))
        invisible == When(\E i \in 1..Len(ps) : ps[i] \in InvisibleWords,
                          Fire("INVISIBLE_CHARS", 1000))
        mixed    == When(\E i \in 1..Len(ps) : ps[i] \in MixedScriptWords,
                         Fire("MIXED_SCRIPTS", 1000))
        long     == SelectSeq(ps, LAMBDA p : p # " " /\ WordInfo[p].len > 5)
        salad    == When(Len(long) > SaladWords
                            /\ Len(SelectIn(long, HighEntropyWords)) * 10 > 4 * Len(long),
                         Fire("WORD_SALAD", 500))
        fired    == loop.fired \o generic \o invisible \o mixed \o salad \o urgency
    IN  [result |-> [analyzer |-> "pattern", score |-> Accumulate(fired), matches |-> fired],
         lastIndex |-> loop.lastIndex]

------------------------------------------------------------------------------
(* Bayesian analyzer *)

\* the tokens tokenize keeps of one word: lower case, split at what is neither
\* a letter nor a digit, 3 to 20 characters long
MinTokenLength == 3

MaxTokenLength == 20

\* the lower-case runs of letters and digits of one word
WordRuns(w) ==
    CASE w = "$100" -> <<"100">>
      [] w = "http://192.168.1.1/login" -> <<"http", "192", "168", "1", "1", "login">>
      [] w = "http://example.xyz/q" -> <<"http", "example", "xyz", "q">>
      [] w = "https://google.com" -> <<"https", "google", "com">>
      [] w \in GooglePages -> <<"https", "google", "com", "a">>   \* the page's one letter
      [] w = "http://example.org/a" -> <<"http", "example", "org", "a">>
      [] w = "http://example.org:8080/a.exe" ->
            <<"http", "example", "org", "8080", "a", "exe">>
      [] w = "http://10.0.1.1/login" -> <<"http", "10", "0", "1", "1", "login">>
      [] OTHER -> <<Lower(w)>>

\* t.length
RunLength(t) ==
    CASE t \in {"1", "q", "a", "0"} -> 1
      [] t \in {"ok", "10"} -> 2
      [] t \in {"100", "192", "168", "xyz", "com", "org", "exe"} -> 3
      [] t \in {"http", "fr33", "8080"} -> 4
      [] t \in {"https", "hello", "login"} -> 5
      [] t \in {"example"} -> 7
      [] t \in {"unsubscribe", "constructor"} -> 11
      [] t = "supercalifragilisticexpialidocious" -> 34
      [] OTHER -> 6

\* the filter of tokenize that keeps every run
WordTokensAnyLength(w) == WordRuns(w)

WordTokens(w) ==
    SelectSeq(WordRuns(w),
              LAMBDA t : RunLength(t) >= MinTokenLength /\ RunLength(t) <= MaxTokenLength)

RepeatAt == 3

\* every occurrence of every token, without the tokenCounts map
tokenizeEveryOccurrence(ps) ==
    Flatten([i \in 1..Len(ps) |-> IF ps[i] = " " THEN <<>> ELSE WordTokens(ps[i])])

\* tokenize(text): each distinct token once, in the order of first occurrence,
\* and a second time when it occurs three times or more
tokenize(ps) ==
    LET all == Flatten([i \in 1..Len(ps) |-> IF ps[i] = " " THEN <<>> ELSE WordTokens(ps[i])])
        count(t) == Cardinality({i \in 1..Len(all) : all[i] = t})
        uniq == Dedupe(all)
    IN  Flatten([i \in 1..Len(uniq) |->
                    IF count(uniq[i]) >= RepeatAt THEN <<uniq[i], uniq[i]>> ELSE <<uniq[i]>>])

\* data.spam / (data.spam + data.ham) as a fraction; an entry inherited from
\* Object.prototype has neither field and the quotient is NaN
TokenProb(bayesianTokens, token) ==
    LET data == Lookup(bayesianTokens, token)
    IN  IF data.kind = "own" /\ data.value.spam + data.value.ham > 0
        THEN [nan |-> FALSE, n |-> data.value.spam, d |-> data.value.spam + data.value.ham]
        ELSE [nan |-> TRUE, n |-> 0, d |-> 1]

\* |p - 0.5| of a exceeds that of b
Farther(a, b) == Abs(2 * a.n - a.d) * b.d > Abs(2 * b.n - b.d) * a.d

MaxSignificant == 15

RECURSIVE Product(_)
Product(s) == IF s = <<>> THEN 1 ELSE Head(s) * Product(Tail(s))

\* calculateRobinsonFisher(tokens, bayesianTokens): the combined probability
\* as productSpam : productSpam + productHam, 1 : 2 when no token is known
calculateRobinsonFisher(tokens, bayesianTokens) ==
    LET known == SelectSeq(tokens, LAMBDA t : Lookup(bayesianTokens, t).kind # "undefined")
        probabilities == [i \in 1..Len(known) |-> TokenProb(bayesianTokens, known[i])]
        rank(i) == Cardinality({j \in 1..Len(known) :
                        \/ Farther(probabilities[j], probabilities[i])
                        \/ j < i /\ ~Farther(probabilities[i], probabilities[j])})
        significant == SelectSeq([i \in 1..Len(known) |-> i], LAMBDA i : rank(i) < MaxSignificant)
        productSpam == Product([k \in 1..Len(significant) |-> probabilities[significant[k]].n])
        productHam  == Product([k \in 1..Len(significant) |->
                            probabilities[significant[k]].d - probabilities[significant[k]].n])
    IN  IF known = <<>> THEN [nan |-> FALSE, n |-> 1, d |-> 2]
        ELSE IF \E i \in 1..Len(known) : probabilities[i].nan THEN [nan |-> TRUE, n |-> 0, d |-> 1]
        ELSE IF productSpam = 0 /\ productHam = 0 THEN [nan |-> FALSE, n |-> 1, d |-> 2]
        ELSE [nan |-> FALSE, n |-> productSpam, d |-> productSpam + productHam]

\* p > t / 10 and p < t / 10; false for NaN
ProbGt(p, t) == ~p.nan /\ 10 * p.n > t * p.d
ProbLt(p, t) == ~p.nan /\ 10 * p.n < t * p.d

Negate(x) == IF x = NaN \/ x = Zero THEN x ELSE [x EXCEPT !.neg = ~x.neg]

\* the score the spam probability maps to
BayesScore(p) ==
    IF ProbGt(p, 9) THEN 4000
    ELSE IF ProbGt(p, 8) THEN 3000
    ELSE IF ProbGt(p, 7) THEN 2000
    ELSE IF ProbGt(p, 6) THEN 1000
    ELSE IF ProbGt(p, 5) THEN 500
    ELSE IF ProbLt(p, 3) THEN -1000
    ELSE IF ProbLt(p, 2) THEN -2000
    ELSE 0

\* a match pushed without touching the running score
Note(n, sc) == [name |-> n, score |-> sc, add |-> Zero]

\* analyzeBayesian from its token list on
classifyTokens(tokens, langData) ==
    LET bayesianTokens == langData.bayesianTokens
        known == SelectSeq(tokens, LAMBDA t : Lookup(bayesianTokens, t).kind # "undefined")
        spamTokens == SelectSeq(known, LAMBDA t : ProbGt(TokenProb(bayesianTokens, t), 7))
        hamTokens  == SelectSeq(known, LAMBDA t : ProbLt(TokenProb(bayesianTokens, t), 3))
        spamProbability == calculateRobinsonFisher(tokens, bayesianTokens)
        score == Num(BayesScore(spamProbability))
        matches ==
            When(Len(spamTokens) > 0,
                 Note("BAYES_SPAM_TOKENS",
                      MathMin(MulSmall(Num(300), Len(spamTokens)), Num(2000))))
            \o When(Len(hamTokens) > 0,
                    Note("BAYES_HAM_TOKENS",
                         Negate(MathMin(MulSmall(Num(200), Len(hamTokens)), Num(1500)))))
            \o When(ProbGt(spamProbability, 7), Note("BAYES_SPAM", score))
            \o When(~ProbGt(spamProbability, 7) /\ ProbLt(spamProbability, 3),
                    Note("BAYES_HAM", score))
    IN  IF tokens = <<>>
        THEN [analyzer |-> "bayesian", score |-> Zero, matches |-> <<>>,
              spamProbability |-> [nan |-> FALSE, n |-> 1, d |-> 2], mapped |-> Zero,
              tokenCount |-> 0, knownTokens |-> 0, spamTokens |-> 0, hamTokens |-> 0]
        ELSE [analyzer |-> "bayesian", score |-> Max0(score), matches |-> matches,
              spamProbability |-> spamProbability, mapped |-> score,
              tokenCount |-> Len(tokens), knownTokens |-> Len(known),
              spamTokens |-> Len(spamTokens), hamTokens |-> Len(hamTokens)]

analyzeBayesian(email, langData) == classifyTokens(tokenize(AllText(email)), langData)

------------------------------------------------------------------------------
(* Engine *)

DEFAULT_CONFIG == [spamThreshold |-> 3500, probableSpamThreshold |-> 2000]

\* { ...base, ...partial }
Merge(base, partial) ==
    [k \in DOMAIN base |-> IF k \in DOMAIN partial THEN partial[k] ELSE base[k]]

\* new SpamGuard(partial)
construct(partial) == Merge(DEFAULT_CONFIG, partial)

\* a getConfig that hands out this.config itself
getConfigShared(own) == [ref |-> "this.config", value |-> own]

\* getConfig(): a fresh object with the fields of this.config
getConfig(own) == [ref |-> "copy", value |-> own]

\* the languages with a dataset schema, and those of them whose dataset file
\* is there to import
SUPPORTED_LANGUAGES == {"en", "es", "de"}

DatasetFiles == {"en", "es"}

\* the dataset of es.json
SpanishData ==
    [EnglishData EXCEPT !.language = "es",
                        !.spamWords = << [word |-> <<"ganador">>, score |-> 1500,
                                          caseSensitive |-> FALSE] >>,
                        !.spamSubjectPatterns = <<>>,
                        !.greetingWords = {"hola"},
                        !.urgencyWords = {"urgente"}]

ISO_639_3_TO_639_1 ==
    [c \in {"eng", "spa", "deu", "fra"} |->
        CASE c = "eng" -> "en" [] c = "spa" -> "es" [] c = "deu" -> "de" [] OTHER -> "fr"]

\* the codes francAll ranks first in the model: undetermined, four languages
\* of the table and Scots, which the table does not hold
FrancCodes == {"und", "eng", "spa", "deu", "fra", "sco"}

\* topCode.substring(0, 2)
FirstTwo(topCode) == IF topCode = "sco" THEN "sc" ELSE topCode

MinDetectLength == 10

\* detectLanguage(text) when francAll ranks topCode first
detectLanguage(text, topCode) ==
    IF TextLen(text) < MinDetectLength \/ topCode = "und"
    THEN [code |-> "en", isSupported |-> TRUE, rawCode |-> "und"]
    ELSE LET iso639_1 == IF topCode \in DOMAIN ISO_639_3_TO_639_1
                         THEN ISO_639_3_TO_639_1[topCode] ELSE FirstTwo(topCode)
             isSupported == iso639_1 \in SUPPORTED_LANGUAGES
         IN  [code |-> IF isSupported THEN iso639_1 ELSE "en",
              isSupported |-> isSupported, rawCode |-> topCode]

\* detectEmailLanguage(subject, body): the detection of the text it settles
\* on, for which francAll ranks topCode first
detectEmailLanguage(subject, body, topCode) == detectLanguage(subject \o body, topCode)

NotFound == [language |-> "#rejected"]

\* await import(`./${normalizedCode}.json`)
ImportDataset(normalizedCode) ==
    IF normalizedCode \notin DatasetFiles THEN NotFound
    ELSE IF normalizedCode = "es" THEN SpanishData
    ELSE EnglishData

\* the import without the catch
getLanguageDataNoFallback(langCode) ==
    IF langCode = "en" THEN EnglishData ELSE ImportDataset(langCode)

\* the dataset the engine loads: the file of the language, and the English
\* one, statically imported, when that file cannot be imported
getLanguageData(langCode) ==
    IF langCode = "en" THEN EnglishData
    ELSE IF ImportDataset(langCode) = NotFound THEN EnglishData
    ELSE ImportDataset(langCode)

AnalyzerNames == <<"header", "content", "url", "html", "pattern", "bayesian">>

HamBoundary == 1000

\* reading a property of undefined throws: the fields of the record that the
\* analyzers dereference
Throws(email) ==
    email.subject = Undefined \/ email.textBody = Undefined \/ email.htmlBody = "undefined"

\* the ham boundary following probableSpamThreshold at a distance of 1.0
classifyMovingBoundary(totalScore, config) ==
    IF Ge(totalScore, Num(config.spamThreshold)) THEN "spam"
    ELSE IF Ge(totalScore, Num(config.probableSpamThreshold)) THEN "probable_spam"
    ELSE IF Le(totalScore, Num(config.probableSpamThreshold - 1000)) THEN "ham"
    ELSE "probable_ham"

\* the probable_spam test made before the spam test
classifyProbableFirst(totalScore, config) ==
    IF Ge(totalScore, Num(config.probableSpamThreshold)) THEN "probable_spam"
    ELSE IF Ge(totalScore, Num(config.spamThreshold)) THEN "spam"
    ELSE IF Le(totalScore, Num(HamBoundary)) THEN "ham"
    ELSE "probable_ham"

classify(totalScore, config) ==
    IF Ge(totalScore, Num(config.spamThreshold)) THEN "spam"
    ELSE IF Ge(totalScore, Num(config.probableSpamThreshold)) THEN "probable_spam"
    ELSE IF Le(totalScore, Num(HamBoundary)) THEN "ham"
    ELSE "probable_ham"

\* the one element of a singleton; with {e(x) : x \in {v}} it names v once
\* for all its uses in e
Only(S) == CHOOSE x \in S : TRUE

\* the share of contributing analyzers without the 0.2 added
confidenceWithoutOffset(analyzers) ==
    MathMin(DivSmall(Len(SelectSeq(analyzers, LAMBDA a : Len(a.matches) > 0)),
                     Len(analyzers)),
            Num(1000))

\* Math.min(contributingAnalyzers / analyzers.length + 0.2, 1)
confidenceOf(analyzers) ==
    LET contributingAnalyzers ==
            Len(SelectSeq(analyzers, LAMBDA a : Len(a.matches) > 0))
    IN  MathMin(Add(DivSmall(contributingAnalyzers, Len(analyzers)), Num(200)), Num(1000))

\* the matches left in the order they came
Unsorted(ms) == ms

\* sort((a, b) => b.rule.score - a.rule.score): descending by rule score,
\* matches of equal score in the order they came
RECURSIVE SortByScore(_)
SortByScore(ms) ==
    IF ms = <<>> THEN <<>>
    ELSE LET m == ms[Len(ms)]
             sorted == SortByScore(SubSeq(ms, 1, Len(ms) - 1))
             k == Cardinality({i \in 1..Len(sorted) : ~Less(sorted[i].score, m.score)})
         IN  SubSeq(sorted, 1, k) \o <<m>> \o SubSeq(sorted, k + 1, Len(sorted))

MaxReasons == 5

\* the matches the top reasons are formatted from
topReasonsOf(analyzers) ==
    LET allMatches ==
            SortByScore(SelectSeq(Flatten([i \in 1..Len(analyzers) |-> analyzers[i].matches]),
                                  LAMBDA m : Gt(m.score, Zero)))
    IN  SubSeq(allMatches, 1, Min(Len(allMatches), MaxReasons))

\* the result SpamGuard.analyze assembles from the six analyzer results
\* (total is the sum before rounding) and the lastIndex the call leaves
aggregate(email, config, analyzers, li) ==
    Only({ [threw |-> FALSE,
            email |-> email,
            isSpam |-> Ge(totalScore, Num(config.spamThreshold)),
            score |-> Round2(totalScore),
            total |-> totalScore,
            threshold |-> config.spamThreshold,
            confidence |-> Round2(confidenceOf(analyzers)),
            classification |-> classify(totalScore, config),
            analyzers |-> analyzers,
            topReasons |-> topReasonsOf(analyzers),
            lastIndex |-> li] :
           totalScore \in {Accumulate([i \in 1..Len(analyzers) |->
                                          [add |-> analyzers[i].score]])} })

\* SpamGuard.analyze(input) from the dataset on, under config, at time now,
\* with the global patterns as li
analyzeWith(input, config, now, li, languageData) ==
    Only({ IF Throws(email) \/ languageData = NotFound
           THEN [threw |-> TRUE, email |-> email, lastIndex |-> li]
           ELSE Only({ Only({ aggregate(email, config, analyzers, pattern.lastIndex) :
                              analyzers \in {<<analyzeHeaders(email, now),
                                               analyzeContent(email, languageData),
                                               analyzeUrls(email),
                                               analyzeHtml(email),
                                               pattern.result,
                                               analyzeBayesian(email, languageData)>>} }) :
                       pattern \in {analyzePatterns(email, languageData, li)} }) :
           email \in {parseStructuredEmail(input)} })

\* SpamGuard.analyze(input) on a message detected as English
analyze(input, config, now, li) ==
    analyzeWith(input, config, now, li, getLanguageData("en"))

\* the rest of analyze after the await: the result with isSpam taken under
\* the configuration the call started with
resumeStale(call, config, now, li) ==
    Only({ IF r.threw THEN r
           ELSE [r EXCEPT !.isSpam = Ge(r.total, Num(call.started.spamThreshold))] :
           r \in {analyzeWith(call.input, config, now, li, call.languageData)} })

\* the rest of analyze after the await, under the configuration of that time
resume(call, config, now, li) ==
    analyzeWith(call.input, config, now, li, call.languageData)

------------------------------------------------------------------------------
(* Inputs *)

\* an input in which every optional field is absent
AbsentInput ==
    [headers |-> <<>>, from |-> "undefined", to |-> "undefined", subject |-> Undefined,
     messageId |-> "undefined", date |-> NoDate, replyTo |-> "undefined",
     returnPath |-> "undefined", receivedSpf |-> "undefined",
     dkimSignature |-> "undefined", authenticationResults |-> "undefined",
     textBody |-> Undefined, htmlBody |-> "undefined"]

\* a signed message that passes SPF, dated day 100
CleanInput ==
    [AbsentInput EXCEPT !.from = "ann@corp.com", !.to = "ann@corp.com",
                        !.messageId = "<id@corp.com>", !.date = 100,
                        !.receivedSpf = "pass", !.dkimSignature = "v=1"]

\* a signed message from a freemail address to an undisclosed list, failing SPF
ListInput ==
    [CleanInput EXCEPT !.from = "bob@gmail.com", !.to = "undisclosed <list@corp.com>",
                       !.receivedSpf = "fail"]

WithText(input, subject, textBody, htmlBody) ==
    [input EXCEPT !.subject = subject, !.textBody = textBody, !.htmlBody = htmlBody]

HiddenDiv == "<div style=display:none;font-size:0 onclick=x()>winner</div><script></script>"

PixelImg == "<img src='http://t.example.xyz/p.gif' width=1 height=1>"

\* the messages analysed
Emails ==
    { AbsentInput,
      WithText(AbsentInput, <<>>, <<>>, "undefined"),
      WithText(CleanInput, <<>>, <<>>, "undefined"),
      WithText(CleanInput, <<"hello", "report">>, <<"hello", "report">>, "undefined"),
      WithText(CleanInput, <<"hello", "report">>, <<"hello", "report", "$100">>, "undefined"),
      WithText(CleanInput, <<"hello", "report">>, <<"$100", "hello", "$100">>, "undefined"),
      WithText(CleanInput, <<"WINNER">>, <<"winner", "v1agra">>, "undefined"),
      WithText(CleanInput, <<"hello", "report">>, <<"hello", "constructor">>, "undefined"),
      WithText(CleanInput, <<"hello">>, <<"http://192.168.1.1/login">>, "<p>hello report</p>"),
      WithText(CleanInput, <<"hello", "report">>, <<>>, HiddenDiv),
      WithText(CleanInput, <<"report">>, <<"unsubscribe", "report">>, PixelImg),
      WithText(CleanInput, <<"hello", "report">>, <<"winner", "hello", "hello">>, "undefined"),
      WithText(ListInput, <<"hello", "report">>, <<"hello", "report">>, "undefined"),
      WithText(ListInput, <<"hello", "report">>, <<"hello", "report", "$100">>, "undefined") }

\* the partial configurations passed to configure
Partials ==
    { [spamThreshold |-> 3500], [spamThreshold |-> 3600],
      [probableSpamThreshold |-> 2000], [probableSpamThreshold |-> 5000],
      [probableSpamThreshold |-> 500] }

------------------------------------------------------------------------------
(* State *)

VARIABLES
    config,      \* the configuration of the shared SpamGuard
    lastIndex,   \* lastIndex of each pattern of the catalog declared with the g flag
    clock,       \* readings of the system clock so far
    last,        \* the latest call of analyze: its input, its configuration, its result
    response,    \* the latest /batch request and its response
    probe        \* the one analyzer run, or pair of runs compared, of a single analyzer

vars == <<config, lastIndex, clock, last, response, probe>>

Now == clock * TickDays

Init ==
    /\ config = DEFAULT_CONFIG
    /\ lastIndex = [n \in GlobalPatterns |-> 0]
    /\ clock = 0
    /\ last = [done |-> FALSE]
    /\ response = [done |-> FALSE, served |-> 0]
    /\ probe = [done |-> FALSE]

\* spamGuard.analyze(input)
Analyze(input) ==
    \E r \in {analyze(input, config, Now, lastIndex)} :
        /\ last' = [done |-> TRUE, input |-> input, config |-> config, result |-> r]
        /\ lastIndex' = r.lastIndex
        /\ UNCHANGED <<config, clock, response, probe>>

\* spamGuard.configure(partial)
Configure(partial) ==
    /\ config' = Merge(config, partial)
    /\ UNCHANGED <<lastIndex, clock, last, response, probe>>

\* time passes
Tick ==
    /\ clock < MaxClock
    /\ clock' = clock + 1
    /\ UNCHANGED <<config, lastIndex, last, response, probe>>

\* what the /batch handler reads of an item: of an object its own fields, of
\* a primitive nothing; reading a field of null throws
BatchInput(item) ==
    IF item.kind = "object"
    THEN [AbsentInput EXCEPT !.from = item.email.from, !.to = item.email.to,
                             !.subject = item.email.subject,
                             !.textBody = item.email.textBody,
                             !.htmlBody = item.email.htmlBody,
                             !.headers = item.email.headers]
    ELSE AbsentInput

BatchLimit == 100

\* body.emails.map(...) from item k on, with the lastIndex each analysis
\* leaves handed to the next
RECURSIVE BatchMap(_, _, _, _, _)
BatchMap(emails, k, cfg, now, li) ==
    IF k > Len(emails) THEN <<>>
    ELSE IF emails[k].kind = "null"
    THEN <<[index |-> k - 1, success |-> FALSE, lastIndex |-> li]>>
         \o BatchMap(emails, k + 1, cfg, now, li)
    ELSE Only({ (IF r.threw
                 THEN <<[index |-> k - 1, success |-> FALSE, lastIndex |-> r.lastIndex]>>
                 ELSE <<[index |-> k - 1, success |-> TRUE, isSpam |-> r.isSpam,
                         score |-> r.score, classification |-> r.classification,
                         analyzers |-> Len(r.analyzers), lastIndex |-> r.lastIndex]>>)
                \o BatchMap(emails, k + 1, cfg, now, r.lastIndex) :
                r \in {analyze(BatchInput(emails[k]), cfg, now, li)} })

Count(s, P(_)) == Cardinality({i \in 1..Len(s) : P(s[i])})

\* POST /batch with body {emails, config}
Batch(emails, partial) ==
    \E results \in {BatchMap(emails, 1, Merge(DEFAULT_CONFIG, partial), Now, lastIndex)} :
        /\ response.served < MaxRequests
        /\ response' =
              IF Len(emails) > BatchLimit
              THEN [done |-> TRUE, served |-> response.served + 1, status |-> 400,
                    emails |-> emails, config |-> partial]
              ELSE [done |-> TRUE, served |-> response.served + 1, status |-> 200,
                    emails |-> emails, config |-> partial,
                    summary |-> [total  |-> Len(results),
                                 spam   |-> Count(results, LAMBDA r : r.success /\ r.isSpam),
                                 ham    |-> Count(results, LAMBDA r : r.success /\ ~r.isSpam),
                                 errors |-> Count(results, LAMBDA r : ~r.success)],
                    results |-> results]
        /\ lastIndex' = IF results = <<>> \/ Len(emails) > BatchLimit THEN lastIndex
                        ELSE results[Len(results)].lastIndex
        /\ UNCHANGED <<config, clock, last, probe>>

\* the items of a batch: objects, null, a number
BatchItems ==
    { [kind |-> "object", email |-> WithText(AbsentInput, <<"hello">>, <<"report">>, "undefined")],
      [kind |-> "object", email |-> WithText(AbsentInput, <<"hello", "report">>,
                                             <<"hello", "report", "$100">>, "undefined")],
      [kind |-> "object", email |-> WithText(CleanInput, <<"hello", "report">>,
                                             <<"$100", "hello", "report", "hello">>, "undefined")],
      [kind |-> "object", email |-> WithText(CleanInput, <<"WINNER">>, <<"winner", "v1agra">>,
                                             "undefined")],
      [kind |-> "null"],
      [kind |-> "primitive"] }

RECURSIVE SeqsUpTo(_, _)
SeqsUpTo(S, n) ==
    IF n = 0 THEN {<<>>}
    ELSE LET shorter == SeqsUpTo(S, n - 1)
         IN  shorter \cup {Append(q, x) : q \in shorter, x \in S}

BatchConfigs == { <<>>, [spamThreshold |-> 3600] }

Next ==
    \/ \E input \in Emails : Analyze(input)
    \/ \E partial \in Partials : Configure(partial)
    \/ Tick

Spec == Init /\ [][Next]_vars

NextBatch ==
    \/ \E emails \in SeqsUpTo(BatchItems, MaxBatch) : \E partial \in BatchConfigs :
            Batch(emails, partial)
    \/ Tick

SpecBatch == Init /\ [][NextBatch]_vars

------------------------------------------------------------------------------
(* The Content Analyzer on a message and on the same message with one more
   phrase in its text body *)

SpamPhrases == {EnglishData.spamWords[i].word : i \in 1..Len(EnglishData.spamWords)}

HamPhrases == {EnglishData.hamWords[i].word : i \in 1..Len(EnglishData.hamWords)}

InsertAt(t, pos, phrase) == SubSeq(t, 1, pos) \o phrase \o SubSeq(t, pos + 1, Len(t))

ContentScore(subject, textBody, htmlBody) ==
    analyzeContent(parseStructuredEmail(WithText(CleanInput, subject, textBody, htmlBody)),
                   getLanguageData("en")).score

BodyWords == {"hello", "winner", "unsubscribe", "$100"}

Compare(subject, textBody, htmlBody, phrase, pos) ==
    /\ ~probe.done
    /\ probe' = [done |-> TRUE, subject |-> subject, textBody |-> textBody,
                 htmlBody |-> htmlBody, phrase |-> phrase, pos |-> pos,
                 before |-> ContentScore(subject, textBody, htmlBody),
                 after |-> ContentScore(subject, InsertAt(textBody, pos, phrase), htmlBody)]
    /\ UNCHANGED <<config, lastIndex, clock, last, response>>

NextContent ==
    \E subject \in {<<>>, <<"hello", "report">>} :
    \E textBody \in SeqsUpTo(BodyWords, MaxBody) :
    \E htmlBody \in {"undefined", "<p>hello report</p>", HiddenDiv} :
    \E phrase \in SpamPhrases \cup HamPhrases :
    \E pos \in 0..Len(textBody) :
        Compare(subject, textBody, htmlBody, phrase, pos)

SpecContent == Init /\ [][NextContent]_vars

------------------------------------------------------------------------------
(* The Bayesian analyzer on token lists and on token tables *)

TokenWords == {"winner", "v1agra", "report", "hello", "constructor", "fr33"}

\* the tokens that are not keys of the token table
UnknownTokens ==
    {w \in TokenWords : Lookup(EnglishData.bayesianTokens, w).kind # "own"}

\* the analyzer on a token list and on the list with one more unknown token
Weigh(tokens, token, pos) ==
    /\ ~probe.done
    /\ probe' = [done |-> TRUE, kind |-> "token", tokens |-> tokens, token |-> token,
                 before |-> classifyTokens(tokens, EnglishData),
                 after |-> classifyTokens(InsertAt(tokens, pos, <<token>>), EnglishData)]
    /\ UNCHANGED <<config, lastIndex, clock, last, response>>

\* the analyzer on one token whose table entry is {spam, ham}
Score(spam, ham) ==
    /\ ~probe.done
    /\ spam + ham > 0
    /\ probe' = [done |-> TRUE, kind |-> "table", spam |-> spam, ham |-> ham,
                 result |-> classifyTokens(<<"winner">>,
                               [bayesianTokens |->
                                   [w \in {"winner"} |-> [spam |-> spam, ham |-> ham]]])]
    /\ UNCHANGED <<config, lastIndex, clock, last, response>>

ShortWords == {"ok", "supercalifragilisticexpialidocious", "winner", "WINNER", "$100"}

\* the analyzer, and tokenize, on a message of a subject and a text body
Classify(subject, textBody) ==
    /\ ~probe.done
    /\ \E email \in {[subject |-> subject, textBody |-> textBody, htmlBody |-> ""]} :
          probe' = [done |-> TRUE, kind |-> "mail", subject |-> subject,
                    textBody |-> textBody,
                    tokens |-> tokenize(AllText(email)),
                    result |-> analyzeBayesian(email, getLanguageData("en"))]
    /\ UNCHANGED <<config, lastIndex, clock, last, response>>

NextBayes ==
    \/ \E subject \in SeqsUpTo(ShortWords, 1) : \E textBody \in SeqsUpTo(ShortWords, MaxText) :
            Classify(subject, textBody)
    \/ \E tokens \in SeqsUpTo(TokenWords, MaxTokens) : \E token \in UnknownTokens :
       \E pos \in 0..Len(tokens) :
            Weigh(tokens, token, pos)
    \/ \E spam \in 0..MaxCount : \E ham \in 0..MaxCount : Score(spam, ham)

SpecBayes == Init /\ [][NextBayes]_vars

------------------------------------------------------------------------------
(* The URL analyzer on bodies of links, and on a body with a link repeated *)

LinkWords ==
    {"http://192.168.1.1/login", "http://example.xyz/q", "https://google.com/a", "hello",
     "http://example.org/a", "http://example.org:8080/a.exe", "http://10.0.1.1/login"}

LinkTexts ==
    SeqsUpTo(LinkWords, MaxLinks)
    \cup {SubSeq(PageList, 1, n) : n \in (Len(PageList) - 2)..Len(PageList)}

LegitimateAnchor == "<a href='https://accounts.google.com'>https://google.com</a>"
PlainAnchor == "<a href='http://t.example.xyz/p.gif'>hello</a>"

\* an HTML body of one anchor, with the anchor a second time
Twice(html) ==
    IF html = LegitimateAnchor
    THEN "<a href='https://accounts.google.com'>https://google.com</a><a href='https://accounts.google.com'>https://google.com</a>"
    ELSE "<a href='http://t.example.xyz/p.gif'>hello</a><a href='http://t.example.xyz/p.gif'>hello</a>"

LinkHtmls == {"", LegitimateAnchor, PlainAnchor}

LinkMail(text, html) == [textBody |-> text, htmlBody |-> html]

\* the analyzer on one body
Visit(text, html) ==
    /\ ~probe.done
    /\ probe' = [done |-> TRUE, kind |-> "visit", text |-> text, html |-> html,
                 result |-> analyzeUrls(LinkMail(text, html))]
    /\ UNCHANGED <<config, lastIndex, clock, last, response>>

\* the analyzer on a body and on the body with n more occurrences of the
\* link at position pos of its text
Repeat(text, html, pos, n) ==
    /\ ~probe.done
    /\ text[pos] \in UrlWords
    /\ LET more == InsertAt(text, pos, [i \in 1..n |-> text[pos]])
       IN  probe' = [done |-> TRUE, kind |-> "repeat", text |-> more, html |-> html,
                     url |-> text[pos], n |-> n,
                     before |-> analyzeUrls(LinkMail(text, html)),
                     after |-> analyzeUrls(LinkMail(more, html))]
    /\ UNCHANGED <<config, lastIndex, clock, last, response>>

\* the analyzer on a body of one anchor and on the body with the anchor twice
RepeatAnchor(text, html) ==
    /\ ~probe.done
    /\ html # ""
    /\ probe' = [done |-> TRUE, kind |-> "anchor", text |-> text, html |-> Twice(html),
                 before |-> analyzeUrls(LinkMail(text, html)),
                 after |-> analyzeUrls(LinkMail(text, Twice(html)))]
    /\ UNCHANGED <<config, lastIndex, clock, last, response>>

NextUrl ==
    \E text \in LinkTexts : \E html \in LinkHtmls :
        \/ Visit(text, html)
        \/ \E pos \in 1..Len(text) : \E n \in 1..MaxRepeat : Repeat(text, html, pos, n)
        \/ RepeatAnchor(text, html)

SpecUrl == Init /\ [][NextUrl]_vars

------------------------------------------------------------------------------
(* The header analyzer on the authentication and priority headers *)

\* "undefined" stands for a header that is absent
SpfValues ==
    {"undefined", "", "pass", "neutral", "none", "fail", "softfail", "SoftFail",
     "fail (domain example.com)"}

AuthValues == {"undefined", "dkim=pass", "dkim=fail", "dmarc=fail", "dkim=fail; dmarc=fail"}

DkimValues == {"undefined", "v=1"}

XPriorityValues == {"undefined", "1", "3"}

ImportanceValues == {"undefined", "high", "HIGH", "normal"}

\* input.headers with the priority headers that are present
PriorityHeaders(xp, imp) ==
    [k \in {n \in {"x-priority", "importance"} :
                \/ n = "x-priority" /\ xp # "undefined"
                \/ n = "importance" /\ imp # "undefined"} |->
        IF k = "x-priority" THEN <<xp>> ELSE <<imp>>]

Stamp(spf, auth, dkim, xp, imp) ==
    /\ ~probe.done
    /\ probe' = [done |-> TRUE, kind |-> "header", spf |-> spf, auth |-> auth,
                 dkim |-> dkim, xp |-> xp, imp |-> imp,
                 result |-> analyzeHeaders(
                    parseStructuredEmail(
                        [CleanInput EXCEPT !.receivedSpf = spf,
                                           !.authenticationResults = auth,
                                           !.dkimSignature = dkim,
                                           !.headers = PriorityHeaders(xp, imp)]),
                    Now)]
    /\ UNCHANGED <<config, lastIndex, clock, last, response>>

NextHeader ==
    \E spf \in SpfValues : \E auth \in AuthValues : \E dkim \in DkimValues :
    \E xp \in XPriorityValues : \E imp \in ImportanceValues :
        Stamp(spf, auth, dkim, xp, imp)

SpecHeader == Init /\ [][NextHeader]_vars

------------------------------------------------------------------------------
(* The engine on analyzer results of every size *)

\* the matches of one analyzer: none, one of score 0, one of negative score,
\* and three of positive score
MatchSamples ==
    { <<>>,
      <<HeaderRule("DKIM_NONE")>>,
      <<Fire("BAYES_HAM", -1000)>>,
      <<HeaderRule("FREEMAIL_FROM"), HeaderRule("SPF_FAIL"), HeaderRule("TO_UNDISCLOSED")>> }

\* analyzers.reduce, filter, flatMap, sort and slice on six results
Report(samples) ==
    /\ ~probe.done
    /\ \E analyzers \in {[i \in 1..Len(AnalyzerNames) |->
                            [analyzer |-> AnalyzerNames[i],
                             score |-> Accumulate(samples[i]),
                             matches |-> samples[i]]]} :
          probe' = [done |-> TRUE, kind |-> "report",
                    result |-> aggregate(parseStructuredEmail(CleanInput), config,
                                         analyzers, lastIndex)]
    /\ UNCHANGED <<config, lastIndex, clock, last, response>>

NextEngine ==
    \E samples \in [1..Len(AnalyzerNames) -> MatchSamples] : Report(samples)

SpecEngine == Init /\ [][NextEngine]_vars

------------------------------------------------------------------------------
(* The HTML analyzer on bodies with any number of matching patterns *)

ExcessiveImages == 11

\* the analyzer on a body in which hidden hiding patterns, ink colour
\* patterns, pixel tracking-pixel patterns and js JavaScript patterns match,
\* with imgTags images
Render(hidden, ink, pixel, js, tinyFont, imgTags) ==
    /\ ~probe.done
    /\ imgTags = 0 => pixel = 0
    /\ probe' = [done |-> TRUE, kind |-> "html", hidden |-> hidden, js |-> js,
                 result |-> checkHtml([HtmlBase EXCEPT !.hidden = hidden, !.ink = ink,
                                                       !.trackingPixel = pixel, !.js = js,
                                                       !.tinyFont = tinyFont,
                                                       !.imgTags = imgTags,
                                                       !.openTags = 1 + imgTags])]
    /\ UNCHANGED <<config, lastIndex, clock, last, response>>

NextHtml ==
    \E hidden \in 0..HiddenPatterns : \E ink \in 0..ColorPatterns :
    \E pixel \in 0..PixelPatterns : \E js \in 0..JsPatterns :
    \E tinyFont \in BOOLEAN : \E imgTags \in {0, 1, ExcessiveImages} :
        Render(hidden, ink, pixel, js, tinyFont, imgTags)

SpecHtml == Init /\ [][NextHtml]_vars

------------------------------------------------------------------------------
(* The engine with the await of the dataset, and configure in between *)

AsyncInputs ==
    { WithText(CleanInput, <<"hello", "report">>, <<"hello", "report", "winner">>, "undefined"),
      WithText(ListInput, <<"hello", "report">>, <<"hello", "report", "$100">>, "undefined"),
      WithText(AbsentInput, <<>>, <<>>, "undefined") }

\* the fields configure is given while a call is suspended
AsyncPartials ==
    { [spamThreshold |-> 500], [spamThreshold |-> 3500], [spamThreshold |-> 8000],
      [probableSpamThreshold |-> 2000], [probableSpamThreshold |-> 5000] }

\* analyze(input) up to the await: the language detected and the dataset
\* the load will resolve to
Start(input, topCode) ==
    /\ probe = [done |-> FALSE]
    /\ \E email \in {parseStructuredEmail(input)} :
       \E languageResult \in {detectEmailLanguage(email.subject, BodySource(email), topCode)} :
          probe' = [done |-> FALSE, kind |-> "pending", input |-> input,
                    started |-> config, languageResult |-> languageResult,
                    languageData |-> getLanguageData(languageResult.code)]
    /\ UNCHANGED <<config, lastIndex, clock, last, response>>

\* analyze(input) from the await on
Finish ==
    /\ ~probe.done /\ probe # [done |-> FALSE]
    /\ \E r \in {resume(probe, config, Now, lastIndex)} :
          /\ probe' = [done |-> TRUE, kind |-> "async", started |-> probe.started,
                       languageResult |-> probe.languageResult,
                       languageData |-> probe.languageData, result |-> r]
          /\ lastIndex' = r.lastIndex
    /\ UNCHANGED <<config, clock, last, response>>

NextAsync ==
    \/ \E input \in AsyncInputs : \E topCode \in FrancCodes : Start(input, topCode)
    \/ \E partial \in AsyncPartials : ~probe.done /\ Configure(partial)
    \/ Finish

SpecAsync == Init /\ [][NextAsync]_vars

------------------------------------------------------------------------------
(* Instances of the engine next to the shared one *)

\* a second SpamGuard, and the object the latest getConfig() of the shared
\* one returned
NoInstances ==
    [done |-> FALSE, kind |-> "instances", other |-> construct(<<>>),
     prev |-> construct(<<>>), given |-> <<>>,
     returned |-> getConfig(DEFAULT_CONFIG), override |-> 0, scored |-> FALSE]

Instances == IF probe = [done |-> FALSE] THEN NoInstances ELSE probe

ScoreInputs ==
    { WithText(CleanInput, <<"hello", "report">>, <<"hello", "report", "winner">>, "undefined"),
      WithText(ListInput, <<"hello", "report">>, <<"hello", "report", "$100">>, "undefined") }

\* the fields given to analyzeEmail, to configure and to the returned object
ConfigPartials ==
    { [spamThreshold |-> 500], [spamThreshold |-> 8000], [probableSpamThreshold |-> 5000] }

\* analyzeEmail(input, partial)
Override(input, partial) ==
    /\ \E r \in {analyze(input, construct(partial), Now, lastIndex)} :
          /\ probe' = [Instances EXCEPT !.override = r.threshold]
          /\ lastIndex' = r.lastIndex
    /\ UNCHANGED <<config, clock, last, response>>

\* other.configure(partial)
ConfigureOther(partial) ==
    /\ probe' = [Instances EXCEPT !.other = Merge(Instances.other, partial),
                                  !.prev = Instances.other, !.given = partial]
    /\ UNCHANGED <<config, lastIndex, clock, last, response>>

\* spamGuard.getConfig()
GetConfig ==
    /\ probe' = [Instances EXCEPT !.returned = getConfig(config)]
    /\ UNCHANGED <<config, lastIndex, clock, last, response>>

\* Object.assign(returned, partial) on the object getConfig() returned
MutateReturned(partial) ==
    /\ probe' = [Instances EXCEPT !.returned.value = Merge(Instances.returned.value, partial)]
    /\ config' = IF Instances.returned.ref = "this.config"
                 THEN Merge(config, partial) ELSE config
    /\ UNCHANGED <<lastIndex, clock, last, response>>

\* POST /score: analyzeEmail(input)
ScoreDefault(input) ==
    /\ \E r \in {analyze(input, config, Now, lastIndex)} :
          /\ probe' = [Instances EXCEPT !.scored = TRUE]
          /\ last' = [done |-> TRUE, input |-> input, config |-> config, result |-> r]
          /\ lastIndex' = r.lastIndex
    /\ UNCHANGED <<config, clock, response>>

NextConfig ==
    \/ \E input \in ScoreInputs : \E partial \in ConfigPartials : Override(input, partial)
    \/ \E partial \in ConfigPartials : ConfigureOther(partial)
    \/ GetConfig
    \/ \E partial \in ConfigPartials : MutateReturned(partial)
    \/ \E input \in ScoreInputs : ScoreDefault(input)

SpecConfig == Init /\ [][NextConfig]_vars

------------------------------------------------------------------------------
(* The Content Analyzer on bodies of dictionary words *)

DictWords == {"v1agra", "fr33", "hello", "constructor"}

\* analyzeContent on a message of a subject and a text body
Spell(subject, textBody) ==
    /\ ~probe.done
    /\ probe' = [done |-> TRUE, kind |-> "words", subject |-> subject,
                 textBody |-> textBody,
                 result |-> analyzeContent(
                               parseStructuredEmail(
                                   WithText(CleanInput, subject, textBody, "undefined")),
                               getLanguageData("en"))]
    /\ UNCHANGED <<config, lastIndex, clock, last, response>>

NextWords ==
    \E subject \in {<<>>, <<"fr33">>, <<"hello">>} :
    \E textBody \in SeqsUpTo(DictWords, MaxText) :
        Spell(subject, textBody)

SpecWords == Init /\ [][NextWords]_vars

------------------------------------------------------------------------------
(* Calls of analyze on inputs that share one headers object *)

\* the headers objects of the caller: the values of the keys in arrays are
\* arrays, the other values strings
SharedHeaders ==
    { [headers |-> h, arrays |-> a] :
        h \in { [k \in {"from"} |-> <<"ann@corp.com">>],
                [k \in {"received-spf"} |-> <<"pass">>],
                [k \in {"from", "received-spf"} |->
                    IF k = "from" THEN <<"ann@corp.com">> ELSE <<"pass">>] },
        a \in SUBSET {"from", "received-spf"} }

\* the caller builds a headers object
Share(shared) ==
    /\ probe = [done |-> FALSE]
    /\ shared.arrays \subseteq DOMAIN shared.headers
    /\ probe' = [done |-> FALSE, kind |-> "shared", headers |-> shared.headers,
                 arrays |-> shared.arrays, original |-> shared.headers,
                 analysed |-> <<>>]
    /\ UNCHANGED <<config, lastIndex, clock, last, response>>

\* guard.analyze({from, receivedSpf, headers}) with the shared headers object
Item(from, receivedSpf) ==
    /\ probe # [done |-> FALSE] /\ probe.kind = "shared"
    /\ Len(probe.analysed) < MaxBatch
    /\ \E input \in {[AbsentInput EXCEPT !.headers = probe.headers, !.from = from,
                                         !.receivedSpf = receivedSpf]} :
       \E r \in {analyze(input, config, Now, lastIndex)} :
          /\ probe' = [probe EXCEPT
                          !.headers = headersAfter(input, probe.arrays),
                          !.analysed = Append(@, [from |-> from,
                                                   receivedSpf |-> receivedSpf,
                                                   headers |-> r.email.headers,
                                                   total |-> r.total])]
          /\ lastIndex' = r.lastIndex
    /\ UNCHANGED <<config, clock, last, response>>

NextAlias ==
    \/ \E shared \in SharedHeaders : Share(shared)
    \/ \E from \in {"undefined", "bob@gmail.com"} :
       \E receivedSpf \in {"undefined", "fail"} : Item(from, receivedSpf)

SpecAlias == Init /\ [][NextAlias]_vars

------------------------------------------------------------------------------
(* Properties *)

Returned == last.done /\ ~last.result.threw

Scores(r) == [i \in 1..Len(r.analyzers) |-> r.analyzers[i].score]

MatchNames(a) == {a.matches[i].name : i \in 1..Len(a.matches)}

\* the running sum of the rule scores of the matches an analyzer returns
MatchSum(a) == Accumulate([i \in 1..Len(a.matches) |-> [add |-> a.matches[i].score]])

Floor0(x) == IF Lt(x, Zero) THEN Zero ELSE x

EmptyMessage == WithText(AbsentInput, <<>>, <<>>, "undefined")

\* C1: a call of analyze on the input and under the configuration of the
\* call before it returns the same analyzer scores, the same total score and
\* the same classification
C1_RepeatedCallSameResult ==
    [][(/\ Returned
        /\ last'.done /\ ~last'.result.threw
        /\ last'.input = last.input
        /\ last'.config = last.config)
       => /\ Scores(last'.result) = Scores(last.result)
          /\ last'.result.score = last.result.score
          /\ last'.result.classification = last.result.classification]_vars

\* C2: in every result of analyze, isSpam is true exactly when the reported
\* score, the total rounded to two decimals, is at least the configured
\* spamThreshold
C2_IsSpamIffReportedScoreAtThreshold ==
    Returned =>
        (last.result.isSpam <=> Ge(last.result.score, Num(last.config.spamThreshold)))

\* C3: the classification follows the total score, the sum before rounding,
\* in order: at least spamThreshold is spam, else at least
\* probableSpamThreshold is probable_spam, else at most 1.0 is ham, else
\* probable_ham, whatever probableSpamThreshold is
C3_ClassificationOrder ==
    Returned =>
        LET total == last.result.total
            c     == last.result.classification
            atSpam     == Ge(total, Num(last.config.spamThreshold))
            atProbable == Ge(total, Num(last.config.probableSpamThreshold))
            atMostOne  == Le(total, Num(1000))
        IN  /\ c \in {"spam", "probable_spam", "ham", "probable_ham"}
            /\ c = "spam" <=> atSpam
            /\ c = "probable_spam" <=> ~atSpam /\ atProbable
            /\ c = "ham" <=> ~atSpam /\ ~atProbable /\ atMostOne
            /\ c = "probable_ham" <=> ~atSpam /\ ~atProbable /\ ~atMostOne

\* a total above 2.0 and below a probableSpamThreshold raised to 5.0 is
\* probable_ham
C3_Witness ==
    /\ Returned
    /\ Gt(last.result.total, Num(2000))
    /\ last.config.probableSpamThreshold = 5000
    /\ last.result.classification = "probable_ham"

\* C4: for the input {subject: "", textBody: ""} under the default thresholds
\* the Content Analyzer fires EMPTY_BODY and SUBJECT_EMPTY, the total score
\* is below 2.0 and the classification is ham or probable_ham
C4_EmptyMessageBelowProbableSpam ==
    (Returned /\ last.input = EmptyMessage /\ last.config = DEFAULT_CONFIG) =>
        /\ {"EMPTY_BODY", "SUBJECT_EMPTY"} \subseteq MatchNames(last.result.analyzers[2])
        /\ Lt(last.result.total, Num(2000))
        /\ last.result.classification \in {"ham", "probable_ham"}

\* an item of a batch that is not an email object
Malformed(item) == item.kind # "object"

\* C5: a /batch request answers with one result per item at the item's index,
\* successful for every item that is an email object, and summary.errors is
\* the number of malformed items
C5_BatchIsolation ==
    (response.done /\ response.status = 200) =>
        /\ Len(response.results) = Len(response.emails)
        /\ \A k \in 1..Len(response.emails) :
              /\ response.results[k].index = k - 1
              /\ ~Malformed(response.emails[k]) => response.results[k].success
        /\ response.summary.errors =
              Cardinality({k \in 1..Len(response.emails) : Malformed(response.emails[k])})

\* C6: no step changes the state of the regular expressions of the pattern
\* catalog
C6_CatalogUnchanged == [][lastIndex' = lastIndex]_vars

\* C7: the reported score is a number, at least 0, and the sum of the six
\* analyzer scores rounded to two decimals; the result carries the six
\* analyzers header, content, url, html, pattern, bayesian
C7_ScoreIsRoundedSumOfSix ==
    Returned =>
        /\ [i \in 1..Len(last.result.analyzers) |-> last.result.analyzers[i].analyzer]
              = AnalyzerNames
        /\ IsNum(last.result.score)
        /\ Ge(last.result.score, Zero)
        /\ last.result.score =
              Round2(Accumulate([i \in 1..6 |-> [add |-> last.result.analyzers[i].score]]))

\* C8: the score of each of the six analyzers is the sum of the rule scores
\* of the matches it returns, floored at 0, and is at least 0
C8_ScoreIsFlooredMatchSum ==
    Returned =>
        \A i \in 1..Len(last.result.analyzers) :
            /\ last.result.analyzers[i].score = Floor0(MatchSum(last.result.analyzers[i]))
            /\ Ge(last.result.analyzers[i].score, Zero)

Verdicts(a) == {k \in 1..Len(a.matches) : a.matches[k].name \in {"BAYES_SPAM", "BAYES_HAM"}}

\* C8, amended: the header, url, html and pattern scores are the sum of the
\* rule scores of their matches and the content score is that sum floored at
\* 0; the bayesian score is the score of its verdict match floored at 0, the
\* token matches not counted, and between 0 and 1.0 without a verdict match;
\* no analyzer score is below 0
C8_ScoreIsMatchSumButBayesian ==
    Returned =>
        LET a == last.result.analyzers
        IN  /\ \A i \in {1, 3, 4, 5} : a[i].score = MatchSum(a[i])
            /\ a[2].score = Floor0(MatchSum(a[2]))
            /\ \A k \in Verdicts(a[6]) : a[6].score = Floor0(a[6].matches[k].score)
            /\ Verdicts(a[6]) = {} => Ge(a[6].score, Zero) /\ Le(a[6].score, Num(1000))
            /\ \A i \in 1..6 : ~Lt(a[i].score, Zero)

\* the bayesian analyzer returns token matches and a verdict whose scores do
\* not add up to its score, next to a content analyzer with matches
C8_Witness ==
    /\ Returned
    /\ {"BAYES_SPAM_TOKENS", "BAYES_SPAM"} \subseteq MatchNames(last.result.analyzers[6])
    /\ last.result.analyzers[6].score # MatchSum(last.result.analyzers[6])
    /\ Len(last.result.analyzers[2].matches) > 0

\* C9: analyze returns for every input; for an input whose optional fields
\* are all absent or empty the parsed record carries a default in every
\* field and the six analyzers each return a result
C9_AbsentInputAnalysed ==
    /\ last.done => ~last.result.threw
    /\ (last.done /\ last.input \in {AbsentInput, EmptyMessage}) =>
          /\ last.result.email.subject = <<>>
          /\ last.result.email.textBody = <<>>
          /\ last.result.email.htmlBody = ""
          /\ last.result.email.from = NullAddr
          /\ last.result.email.replyTo = NullAddr
          /\ last.result.email.to = <<>>
          /\ last.result.email.messageId = "#null"
          /\ last.result.email.date = NoDate
          /\ last.result.email.receivedChain = <<>>
          /\ [i \in 1..Len(last.result.analyzers) |-> last.result.analyzers[i].analyzer]
                = AnalyzerNames

\* the input with every field absent has been analysed
C9_Witness ==
    /\ last.done
    /\ last.input = AbsentInput
    /\ ~last.result.threw
    /\ Len(last.result.analyzers) = 6

\* C10: one more occurrence of a spam phrase in the text body does not lower
\* the Content Analyzer score, and one more occurrence of a ham phrase does
\* not raise it
C10_ContentMonotone ==
    probe.done =>
        /\ probe.phrase \in SpamPhrases => Ge(probe.after, probe.before)
        /\ probe.phrase \in HamPhrases => Le(probe.after, probe.before)

ProbEq(a, b) == a.nan = b.nan /\ (~a.nan => a.n * b.d = b.n * a.d)

\* C11: one more token that is not a key of the token table leaves the
\* combined probability, the known, spam and ham token counts and the
\* analyzer score as they were; with no known token the probability is 0.5
C11_UnknownTokenNeutral ==
    (probe.done /\ probe.kind = "token") =>
        /\ ProbEq(probe.after.spamProbability, probe.before.spamProbability)
        /\ probe.after.knownTokens = probe.before.knownTokens
        /\ probe.after.spamTokens = probe.before.spamTokens
        /\ probe.after.hamTokens = probe.before.hamTokens
        /\ probe.after.score = probe.before.score
        /\ probe.before.knownTokens = 0 =>
              ProbEq(probe.before.spamProbability, [nan |-> FALSE, n |-> 1, d |-> 2])

\* the score the mapping gives the probability n / d: 4.0 above 0.9, 3.0
\* above 0.8, 2.0 above 0.7, 1.0 above 0.6, 0.5 above 0.5, -2.0 below 0.2,
\* -1.0 below 0.3, else 0
MappedScore(n, d) ==
    IF 10 * n > 9 * d THEN 4000
    ELSE IF 10 * n > 8 * d THEN 3000
    ELSE IF 10 * n > 7 * d THEN 2000
    ELSE IF 10 * n > 6 * d THEN 1000
    ELSE IF 10 * n > 5 * d THEN 500
    ELSE IF 10 * n < 2 * d THEN -2000
    ELSE IF 10 * n < 3 * d THEN -1000
    ELSE 0

\* C12: the probability maps to 4.0, 3.0, 2.0, 1.0, 0.5, 0, -1.0 or -2.0 by
\* its range; a BAYES_SPAM match is returned exactly above 0.7 and a
\* BAYES_HAM match exactly below 0.3, each carrying the mapped score; the
\* analyzer score is the mapped score floored at 0
C12_BayesScoreMapping ==
    (probe.done /\ probe.kind = "table") =>
        LET n == probe.spam
            d == probe.spam + probe.ham
            r == probe.result
        IN  /\ r.mapped = Num(MappedScore(n, d))
            /\ r.score = Floor0(Num(MappedScore(n, d)))
            /\ "BAYES_SPAM" \in MatchNames(r) <=> 10 * n > 7 * d
            /\ "BAYES_HAM" \in MatchNames(r) <=> 10 * n < 3 * d
            /\ \A k \in Verdicts(r) : r.matches[k].score = Num(MappedScore(n, d))

\* the root domains of the URLs and link targets of a body
RootDomains(text, html) ==
    LET urls == extractUrls(text) \o extractHtmlUrls(html)
                \o extractUrls(extractTextFromHtml(html))
    IN  {getRootDomain(parseUrl(urls[i]).domain) : i \in 1..Len(urls)}

\* C13: an email whose URLs and link targets all have root domains of the
\* legitimate-domain list gets URL score 0
C13_LegitimateDomainsScoreZero ==
    (probe.done /\ probe.kind = "visit"
        /\ RootDomains(probe.text, probe.html) \subseteq LEGITIMATE_DOMAINS) =>
        probe.result.score = Zero

PerDomainRules ==
    {"IP_ADDRESS_URL", "SUSPICIOUS_TLD", "URL_SHORTENER", "URL_WITH_PORT", "ENCODED_URL",
     "PHISHING_DOMAIN", "SUSPICIOUS_PATH", "MANY_SUBDOMAINS", "LONG_SUBDOMAIN"}

\* no per-domain rule has more matches than the body has root domains
\* outside the legitimate-domain list
OncePerRootDomain(r, text, html) ==
    \A name \in PerDomainRules :
        Cardinality({k \in 1..Len(r.matches) : r.matches[k].name = name})
            <= Cardinality(RootDomains(text, html) \ LEGITIMATE_DOMAINS)

\* C14: a body that contains a URL several times gets the URL score of the
\* body that contains it once, and no per-domain penalty is added more than
\* once per root domain
C14_RepeatedUrlSameScore ==
    (probe.done /\ probe.kind \in {"repeat", "anchor"}) =>
        /\ probe.after.score = probe.before.score
        /\ OncePerRootDomain(probe.after, probe.text, probe.html)

Unlinked(r) == SelectSeq(r.matches, LAMBDA m : m.name # "MISMATCHED_LINK_TEXT")

\* C14 as the analyzer has it: a URL repeated in the text leaves the score
\* and the matches as they were; an anchor repeated in the HTML leaves every
\* match but MISMATCHED_LINK_TEXT as it was, and that rule is matched once
\* per anchor whose text differs from its target; no per-domain penalty is
\* added more than once per root domain
C14_RepeatedUrlSameScoreButAnchors ==
    (probe.done /\ probe.kind \in {"repeat", "anchor"}) =>
        /\ Unlinked(probe.after) = Unlinked(probe.before)
        /\ probe.kind = "repeat" =>
              /\ probe.after.score = probe.before.score
              /\ probe.after.matches = probe.before.matches
        /\ Len(probe.after.matches) - Len(Unlinked(probe.after))
              = (IF probe.html = "" THEN 0 ELSE HtmlDocs[probe.html].mismatchedLinks)
        /\ OncePerRootDomain(probe.after, probe.text, probe.html)

\* a suspicious link twice more in a text that already holds another link of
\* its root domain in the HTML body
C14_Witness ==
    /\ probe.done /\ probe.kind = "repeat"
    /\ probe.url = "http://example.xyz/q" /\ probe.n = 2
    /\ probe.html = PlainAnchor
    /\ probe.after.score = Num(1500)

Stamped == probe.done /\ probe.kind = "header"

\* the rules of a set that a result matched, and how many matches they have
FiredOf(r, names) == {r.matches[k].name : k \in 1..Len(r.matches)} \cap names

CountFired(r, names) == Cardinality({k \in 1..Len(r.matches) : r.matches[k].name \in names})

SpfRules == {"SPF_FAIL", "SPF_SOFTFAIL", "SPF_NONE"}

DkimRules == {"DKIM_FAIL", "DKIM_NONE"}

\* C16: with a dkim-signature header neither DKIM_FAIL nor DKIM_NONE is
\* matched, whatever authentication-results holds, and the two are never
\* matched together
C16_SignatureSuppressesDkimRules ==
    Stamped =>
        /\ probe.dkim # "undefined" => FiredOf(probe.result, DkimRules) = {}
        /\ CountFired(probe.result, DkimRules) <= 1

\* C16 as the analyzer has it: DKIM_FAIL is matched exactly when
\* authentication-results holds dkim=fail, with or without a signature;
\* DKIM_NONE exactly when it does not and the signature is absent; never both
C16_SignatureSuppressesDkimNone ==
    Stamped =>
        /\ FiredOf(probe.result, DkimRules) =
              IF probe.auth \in {"dkim=fail", "dkim=fail; dmarc=fail"} THEN {"DKIM_FAIL"}
              ELSE IF probe.dkim = "undefined" THEN {"DKIM_NONE"}
              ELSE {}
        /\ CountFired(probe.result, DkimRules) <= 1

C16_Witness ==
    /\ Stamped /\ probe.dkim = "v=1" /\ probe.auth = "dkim=fail"
    /\ FiredOf(probe.result, DkimRules) = {"DKIM_FAIL"}

\* C17: HIGH_PRIORITY_SPAM is matched whenever X-Priority is "1" or
\* Importance is "high" in any case, for every combination of the two
\* headers, and never more than once
C17_HighPriorityFires ==
    Stamped =>
        /\ CountFired(probe.result, {"HIGH_PRIORITY_SPAM"}) <= 1
        /\ (probe.xp = "1" \/ probe.imp \in {"high", "HIGH"}) =>
              CountFired(probe.result, {"HIGH_PRIORITY_SPAM"}) = 1

Reported == probe.done /\ probe.kind = "report"

\* every match of the six analyzer results, and those of positive rule score
AllMatches(r) == Flatten([i \in 1..Len(r.analyzers) |-> r.analyzers[i].matches])

Positive(r) == SelectSeq(AllMatches(r), LAMBDA m : Gt(m.score, Zero))

Occurrences(ms, m) == Cardinality({i \in 1..Len(ms) : ms[i] = m})

\* C18: topReasons has at most 5 entries, each from a match of positive rule
\* score, in non-increasing order of rule score, and no match of positive
\* score that is left out has a higher rule score than one that is included
C18_TopReasons ==
    Reported =>
        LET r == probe.result
            top == r.topReasons
        IN  /\ Len(top) <= 5
            /\ Len(top) = Min(Len(Positive(r)), 5)
            /\ \A i \in 1..Len(top) :
                  /\ Gt(top[i].score, Zero)
                  /\ Occurrences(top, top[i]) <= Occurrences(Positive(r), top[i])
            /\ \A i \in 1..(Len(top) - 1) : Ge(top[i].score, top[i + 1].score)
            /\ \A m \in {Positive(r)[i] : i \in 1..Len(Positive(r))} :
                  Occurrences(top, m) < Occurrences(Positive(r), m) =>
                      \A i \in 1..Len(top) : Ge(top[i].score, m.score)

\* more than five matches of positive score, not all of one score
C18_Witness ==
    /\ Reported
    /\ Len(Positive(probe.result)) > 5
    /\ Len(probe.result.topReasons) = 5
    /\ probe.result.topReasons[1].score # probe.result.topReasons[5].score
    /\ \E i \in 1..Len(Positive(probe.result)) :
          Less(Positive(probe.result)[i].score, probe.result.topReasons[5].score)

\* the analyzers of a result with at least one match
Contributing(r) == Cardinality({i \in 1..Len(r.analyzers) : Len(r.analyzers[i].matches) > 0})

\* C19: the reported confidence is min(k/6 + 0.2, 1.0) for k analyzers with
\* at least one match
C19_ConfidenceFormula ==
    Reported =>
        probe.result.confidence =
            MathMin(Add(DivSmall(Contributing(probe.result), 6), Num(200)), Num(1000))

\* min(k/6 + 0.2, 1) in hundredths, rounded to the nearest whole
Hundredths(k) == Min((2 * (100 * k + 120) + 6) \div 12, 100)

\* C19 as the engine reports it: min(k/6 + 0.2, 1.0) rounded to two
\* decimals, which is 0.2, 0.37, 0.53, 0.7, 0.87, 1 and 1 for k = 0 .. 6; it
\* lies in [0.2, 1.0] and no smaller k gives a larger confidence
C19_ConfidenceRounded ==
    Reported =>
        LET k == Contributing(probe.result)
            c == probe.result.confidence
        IN  /\ c = Num(10 * Hundredths(k))
            /\ Ge(c, Num(200)) /\ Le(c, Num(1000))
            /\ \A j \in 0..k : Le(Num(10 * Hundredths(j)), c)

C19_Witness ==
    /\ Reported
    /\ Contributing(probe.result) = 1
    /\ probe.result.confidence = Num(370)

Rendered == probe.done /\ probe.kind = "html"

\* C20: the HTML analyzer matches no rule name twice; its score is the sum of
\* the base scores of the rules matched; HIDDEN_TEXT adds 2.5 and
\* JAVASCRIPT_PRESENT 2.0 however many of their patterns match
C20_HtmlRulesOnce ==
    Rendered =>
        LET r == probe.result
        IN  /\ \A i, j \in 1..Len(r.matches) :
                  r.matches[i].name = r.matches[j].name => i = j
            /\ \A i \in 1..Len(r.matches) :
                  r.matches[i].score = Num(HTML_RULES[r.matches[i].name])
            /\ r.score = MatchSum(r)
            /\ probe.hidden > 0 =>
                  CountFired(r, {"HIDDEN_TEXT"}) = 1 /\ HTML_RULES["HIDDEN_TEXT"] = 2500
            /\ probe.js > 0 =>
                  CountFired(r, {"JAVASCRIPT_PRESENT"}) = 1
                  /\ HTML_RULES["JAVASCRIPT_PRESENT"] = 2000

\* every hiding pattern and every JavaScript pattern matches
C20_Witness ==
    /\ Rendered
    /\ probe.hidden = 5 /\ probe.js = 3
    /\ CountFired(probe.result, {"HIDDEN_TEXT", "JAVASCRIPT_PRESENT"}) = 2

Classified == probe.done /\ probe.kind = "mail"

\* words without a run of letters and digits of 3 to 20 characters
Tokenless == {"ok", "supercalifragilisticexpialidocious"}

\* C21: a message whose subject and bodies yield no token gets Bayesian score
\* 0, probability exactly 0.5, token count 0 and no match
C21_NoTokenNeutral ==
    (Classified /\ \A i \in 1..Len(probe.subject \o probe.textBody) :
                        (probe.subject \o probe.textBody)[i] \in Tokenless) =>
        /\ probe.result.score = Zero
        /\ probe.result.spamProbability = [nan |-> FALSE, n |-> 1, d |-> 2]
        /\ probe.result.tokenCount = 0
        /\ probe.result.matches = <<>>

\* a body of words too short and too long to be tokens
C21_Witness ==
    /\ Classified
    /\ probe.textBody = <<"ok", "supercalifragilisticexpialidocious">>
    /\ probe.result.tokenCount = 0

\* the runs of letters and digits of the message, and how often t is one
Runs(subject, textBody) ==
    Flatten([i \in 1..Len(subject \o textBody) |-> WordRuns((subject \o textBody)[i])])

Times(s, t) == Cardinality({i \in 1..Len(s) : s[i] = t})

\* C25: tokenize returns only lower-case tokens of 3 to 20 characters; a
\* token that occurs once or twice in the text is returned once, one that
\* occurs three times or more twice, and none more than twice
C25_TokenizeDedup ==
    Classified =>
        LET runs == Runs(probe.subject, probe.textBody)
        IN  /\ \A i \in 1..Len(probe.tokens) :
                  /\ RunLength(probe.tokens[i]) \in 3..20
                  /\ probe.tokens[i] # "WINNER"
                  /\ Times(runs, probe.tokens[i]) > 0
                  /\ Times(probe.tokens, probe.tokens[i]) <= 2
            /\ \A i \in 1..Len(runs) :
                  RunLength(runs[i]) \in 3..20 =>
                      Times(probe.tokens, runs[i]) = (IF Times(runs, runs[i]) >= 3 THEN 2 ELSE 1)

\* a token in two cases four times, and one once
C25_Witness ==
    /\ Classified
    /\ probe.subject = <<"WINNER">>
    /\ probe.textBody = <<"winner", "$100", "winner">>
    /\ probe.tokens = <<"winner", "winner", "100">>

\* C26: in every result isSpam is true exactly when the classification is
\* "spam", whatever the two thresholds are; with probableSpamThreshold at or
\* above spamThreshold no result is probable_spam
C26_IsSpamIffClassifiedSpam ==
    Returned =>
        /\ last.result.isSpam <=> last.result.classification = "spam"
        /\ last.result.classification \in {"probable_spam", "probable_ham", "ham"} =>
              ~last.result.isSpam
        /\ last.config.probableSpamThreshold >= last.config.spamThreshold =>
              last.result.classification # "probable_spam"

\* spam under a probableSpamThreshold above the spamThreshold
C26_Witness ==
    /\ Returned
    /\ last.config.probableSpamThreshold > last.config.spamThreshold
    /\ last.result.isSpam
    /\ last.result.classification = "spam"

Finished == probe.done /\ probe.kind = "async"

C27_ResultUnderOneConfig ==
    (Finished /\ ~probe.result.threw) =>
        LET r == probe.result
        IN  /\ r.isSpam <=> Ge(r.total, Num(r.threshold))
            /\ r.classification = "spam" <=> Ge(r.total, Num(r.threshold))
            /\ r.isSpam <=> r.classification = "spam"

\* configure changed the spamThreshold during the load, and the result is
\* under the new one where the old one decides otherwise
C27_Witness ==
    /\ Finished /\ ~probe.result.threw
    /\ probe.started.spamThreshold # probe.result.threshold
    /\ probe.result.isSpam # Ge(probe.result.total, Num(probe.started.spamThreshold))
    /\ probe.result.isSpam <=> probe.result.classification = "spam"

Spelled == probe.done /\ probe.kind = "words"

\* the matches of the single-word dictionary among the matches of a result
WordMatches(r) == SelectSeq(r.matches, LAMBDA m : m.name = "SPAM_WORD_MATCH")

\* C23: each distinct word of the message that is a key of the single-word
\* dictionary adds its score once however often it occurs, a word that is
\* not a key adds nothing, and the content score is a number
C23_DictionaryWordOnce ==
    Spelled =>
        LET dict == EnglishData.spamSingleWords
            words == LowerText(probe.subject \o probe.textBody)
            keys == SelectSeq(FirstOccurrences(words), LAMBDA i : words[i] \in DOMAIN dict)
            fired == WordMatches(probe.result)
        IN  /\ Len(fired) = Len(keys)
            /\ \A i \in 1..Len(keys) : fired[i].add = Num(dict[words[keys[i]]])
            /\ IsNum(probe.result.score)

Visited == probe.done /\ probe.kind = "visit"

\* the URLs the analyzer extracts from a body, in the order it checks them
Extracted(text, html) ==
    Dedupe(extractUrls(text) \o extractHtmlUrls(html)
           \o extractUrls(extractTextFromHtml(html)))

PerDomain(r) == SelectSeq(r.matches, LAMBDA m : m.name \in PerDomainRules)

\* C24: the per-domain penalties of a body are those of the first extracted
\* URL of each root domain outside the legitimate-domain list; a later URL of
\* a root domain already seen adds none, whatever it holds
C24_FirstUrlDecides ==
    Visited =>
        LET urls == Extracted(probe.text, probe.html)
            root(i) == getRootDomain(parseUrl(urls[i]).domain)
            firsts == SelectSeq([i \in 1..Len(urls) |-> i],
                                LAMBDA i : \A j \in 1..(i - 1) : root(j) # root(i))
        IN  PerDomain(probe.result) =
                Flatten([k \in 1..Len(firsts) |->
                            IF root(firsts[k]) \in LEGITIMATE_DOMAINS THEN <<>>
                            ELSE UrlChecks(parseUrl(urls[firsts[k]]))])

\* a plain link, then a link of the same root domain with a port and an
\* executable path: no penalty
C24_Witness ==
    /\ Visited
    /\ probe.text = <<"http://example.org/a", "http://example.org:8080/a.exe">>
    /\ probe.html = ""
    /\ probe.result.matches = <<>>
    /\ UrlChecks(parseUrl("http://example.org:8080/a.exe")) # <<>>

\* C30: URLs whose hosts are different IP addresses are each inspected: the
\* body gets one IP_ADDRESS_URL match for each IP host among its URLs
C30_IpHostsEachInspected ==
    Visited =>
        LET urls == Extracted(probe.text, probe.html)
            hosts == {parseUrl(urls[i]).domain :
                        i \in {j \in 1..Len(urls) : parseUrl(urls[j]).isIpAddress}}
        IN  Cardinality({k \in 1..Len(probe.result.matches) :
                            probe.result.matches[k].name = "IP_ADDRESS_URL"})
                = Cardinality(hosts)

\* C29: analyze leaves the headers object of its input and every header
\* value in it as they were, so that two inputs with the same fields that
\* share a headers object are analysed on the same headers
C29_InputUnchanged ==
    (probe # [done |-> FALSE] /\ probe.kind = "shared") =>
        /\ probe.headers = probe.original
        /\ \A i, j \in 1..Len(probe.analysed) :
              (probe.analysed[i].from = probe.analysed[j].from
                  /\ probe.analysed[i].receivedSpf = probe.analysed[j].receivedSpf) =>
                 probe.analysed[i].headers = probe.analysed[j].headers

====
